---- MODULE Spec2Model ----
(***************************************************************************)
(* Model of the WorkToJiraEffort daemon: the session state machine         *)
(* (src/src/state.rs), the SQLite store (src/src/database.rs), the         *)
(* WorkTracker commands, consolidation and export (src/src/tracker.rs),    *)
(* its Jira, LLM and Screenpipe clients (src/src/jira.rs, src/src/llm.rs,  *)
(* src/src/screenpipe.rs) and the HTTP control surface                     *)
(* (src/src/daemon.rs).                                                    *)
(*                                                                         *)
(* Option<T> is modelled as a sequence of length 0 (None) or 1 (Some).     *)
(* Utc::now() is modelled by the logical clock `now`.                      *)
(* AUTOINCREMENT row ids are positions in the table sequence.              *)
(***************************************************************************)
EXTENDS Integers, Sequences, FiniteSets, TLC

VARIABLES
    state_manager,  \* tracker.rs:22  WorkTracker.state_manager (StateManager)
    database,       \* tracker.rs:21  WorkTracker.database (tables of database.rs)
    config,         \* tracker.rs:16  WorkTracker.config, fixed at construction
    last_sync,      \* tracker.rs:23  WorkTracker.last_sync, the fetch cursor
    now,            \* logical clock read by Utc::now()
    last,           \* the response to the last control request
    task,           \* per tokio task: position and locals of the handler or loop
    locks,          \* the two tokio RwLocks: tracker (daemon.rs:38),
                    \* state_manager (tracker.rs:69)
    jira,           \* tracker.rs:18  WorkTracker.jira: the client's cache, and
                    \* the worklogs the Jira server holds
    last_llm_analysis,  \* tracker.rs:24  WorkTracker.last_llm_analysis
    issue_override, \* daemon.rs:34  the issue override shared with the tracker
    trace,          \* the calls the last export run made to Jira, the LLM service
                    \* and the store, in the order it made them
    call            \* a function called on its own: its name, arguments, result

vars == <<state_manager, database, config, last_sync, now, last, task, locks,
          jira, last_llm_analysis, issue_override, trace, call>>

\* ---------------------------------------------------------------- bounds
MaxSessions == 2
MaxBreaks == 2
MaxTime == 2
MaxId == 2
\* bounds of the task-by-task specification
ConcMaxSessions == 2
ConcMaxBreaks == 1
MaxActivities == 1
\* bounds of the export: rows of analysis_results, worklogs on the server,
\* answers of Jira per export run
MaxAnalyses == 1
MaxWorklogs == 1
MaxExportCalls == 1

\* ---------------------------------------------------------------- Option
None == <<>>
Some(x) == <<x>>
IsSome(o) == Len(o) = 1
IsNone(o) == Len(o) = 0
Unwrap(o) == o[1]

\* Result<(), String> : Ok(()) or the error message
Ok == "Ok"
AlreadyTracking == "Already tracking"
AlreadyPaused == "Already paused"
NotTracking == "Not tracking"
NotInSession == "Not in a session"
NoActiveSession == "No active session"
NoActiveBreak == "No active break"

\* ------------------------------------------------------------- state.rs
Stopped == "stopped"
Tracking == "tracking"
Paused == "paused"

\* TrackingState::is_tracking
TrackingState_is_tracking_OrPaused(s) == s \in {Tracking, Paused}
TrackingState_is_tracking(s) == s = Tracking

\* Session::new : start_time = Utc::now(), end_time = None, state Tracking
Session_new(id, t) ==
    [id |-> id, start_time |-> t, end_time |-> None, state |-> Tracking]

\* Session::is_active
Session_is_active(s) == IsNone(s.end_time)

\* BreakPeriod::new
BreakPeriod_new(id, session_id, t) ==
    [id |-> id, session_id |-> session_id, start_time |-> t, end_time |-> None]

\* BreakPeriod::is_active
BreakPeriod_is_active(b) == IsNone(b.end_time)

\* StateManager::new
StateManager_new ==
    [current_state |-> Stopped, current_session |-> None, current_break |-> None]

\* `if let Some(ref mut x) = opt { x.end_time = Some(Utc::now()) }`
SetEnd(opt, t) ==
    IF IsSome(opt) THEN Some([Unwrap(opt) EXCEPT !.end_time = Some(t)]) ELSE opt

\* StateManager::start_tracking
StateManager_start_tracking(sm, session_id, t) ==
    CASE sm.current_state = Stopped ->
           [sm |-> [sm EXCEPT !.current_state = Tracking,
                              !.current_session = Some(Session_new(session_id, t))],
            res |-> Ok]
      [] sm.current_state = Tracking ->
           [sm |-> sm, res |-> AlreadyTracking]
      [] sm.current_state = Paused ->
           [sm |-> [sm EXCEPT !.current_state = Tracking,
                              !.current_break = None],
            res |-> Ok]

\* StateManager::pause_tracking
StateManager_pause_tracking(sm, break_id, t) ==
    CASE sm.current_state = Tracking ->
           IF IsSome(sm.current_session)
           THEN [sm |-> [sm EXCEPT !.current_state = Paused,
                                   !.current_break =
                                       Some(BreakPeriod_new(break_id,
                                            Unwrap(sm.current_session).id, t))],
                 res |-> Ok]
           ELSE [sm |-> sm, res |-> NoActiveSession]
      [] sm.current_state = Paused ->
           [sm |-> sm, res |-> AlreadyPaused]
      [] sm.current_state = Stopped ->
           [sm |-> sm, res |-> NotTracking]

\* StateManager::resume_tracking with the Stopped arm reporting stop's error
StateManager_resume_tracking_WrongError(sm, t) ==
    CASE sm.current_state = Paused ->
           [sm |-> [sm EXCEPT !.current_state = Tracking,
                              !.current_break = None],
            res |-> Ok]
      [] sm.current_state = Tracking ->
           [sm |-> sm, res |-> AlreadyTracking]
      [] sm.current_state = Stopped ->
           [sm |-> sm, res |-> NotTracking]

\* StateManager::resume_tracking
StateManager_resume_tracking(sm, t) ==
    CASE sm.current_state = Paused ->
           [sm |-> [sm EXCEPT !.current_state = Tracking,
                              !.current_break = None],
            res |-> Ok]
      [] sm.current_state = Tracking ->
           [sm |-> sm, res |-> AlreadyTracking]
      [] sm.current_state = Stopped ->
           [sm |-> sm, res |-> NotInSession]

\* StateManager::stop_tracking that forgets to end the current break
StateManager_stop_tracking_BreakLeftOpen(sm, t) ==
    CASE sm.current_state \in {Tracking, Paused} ->
           [sm |-> [sm EXCEPT !.current_state = Stopped,
                              !.current_session = SetEnd(sm.current_session, t)],
            res |-> Ok]
      [] sm.current_state = Stopped ->
           [sm |-> sm, res |-> NotTracking]

\* StateManager::stop_tracking
StateManager_stop_tracking(sm, t) ==
    CASE sm.current_state \in {Tracking, Paused} ->
           [sm |-> [sm EXCEPT !.current_state = Stopped,
                              !.current_session = SetEnd(sm.current_session, t),
                              !.current_break = SetEnd(sm.current_break, t)],
            res |-> Ok]
      [] sm.current_state = Stopped ->
           [sm |-> sm, res |-> NotTracking]

\* ---------------------------------------------------------- database.rs
\* Database::new + init_schema : empty tables
Database_new ==
    [sessions |-> <<>>, breaks |-> <<>>, activities |-> <<>>,
     analysis_results |-> <<>>]

\* Database::create_session returning the row id read before the INSERT
Database_create_session_StaleRowId(db, t) ==
    [db |-> [db EXCEPT !.sessions =
                Append(@, [start_time |-> t, end_time |-> None, state |-> Tracking])],
     id |-> Len(db.sessions)]

\* Database::create_session : INSERT, returns last_insert_rowid()
Database_create_session(db, t) ==
    [db |-> [db EXCEPT !.sessions =
                Append(@, [start_time |-> t, end_time |-> None, state |-> Tracking])],
     id |-> Len(db.sessions) + 1]

\* Database::end_session : UPDATE ... WHERE id = ?  (no row => no change)
Database_end_session(db, session_id, t) ==
    [db EXCEPT !.sessions =
        [i \in DOMAIN @ |->
            IF i = session_id
            THEN [@[i] EXCEPT !.end_time = Some(t), !.state = Stopped]
            ELSE @[i]]]

\* Database::create_break
Database_create_break(db, session_id, t) ==
    [db |-> [db EXCEPT !.breaks =
                Append(@, [session_id |-> session_id, start_time |-> t,
                           end_time |-> None])],
     id |-> Len(db.breaks) + 1]

\* Database::end_break
Database_end_break(db, break_id, t) ==
    [db EXCEPT !.breaks =
        [i \in DOMAIN @ |->
            IF i = break_id THEN [@[i] EXCEPT !.end_time = Some(t)] ELSE @[i]]]

\* enum ActivityTier
Billable == "Billable"
Micro == "Micro"

\* ActivityTier::as_str : the text kept in the tier column
ActivityTier_as_str(tier) == IF tier = Micro THEN "micro" ELSE "billable"

\* the match on the tier column when a row is read: "micro" is Micro, any
\* other text is Billable
ActivityTier_from_column(text) == IF text = "micro" THEN Micro ELSE Billable

\* ActivityTier::from_duration
TierThresholdSecs == 600
\* from_duration with the boundary on the Micro side
ActivityTier_from_duration_BoundaryMicro(duration_secs) ==
    IF duration_secs <= TierThresholdSecs THEN Micro ELSE Billable
ActivityTier_from_duration(duration_secs) ==
    IF duration_secs < TierThresholdSecs THEN Micro ELSE Billable

\* store_activity that clears logged_to_jira of the rows already stored
Database_store_activity_ResetsLogged(db, session_id, activity) ==
    [db EXCEPT !.activities =
        Append([i \in DOMAIN @ |-> [@[i] EXCEPT !.logged_to_jira = FALSE]],
               [id |-> Len(@) + 1,
                session_id |-> session_id,
                timestamp |-> activity.timestamp,
                duration_secs |-> activity.duration_secs,
                window_title |-> activity.window_title,
                app_name |-> activity.app_name,
                tier |-> ActivityTier_as_str(
                             ActivityTier_from_duration(activity.duration_secs)),
                logged_to_jira |-> FALSE])]

\* Database::store_activity : INSERT with the tier computed from the duration;
\* logged_to_jira takes the column default 0.  The description text is stored
\* unchanged and decides nothing in the modelled code; it is left out of the
\* row.
Database_store_activity(db, session_id, activity) ==
    [db EXCEPT !.activities =
        Append(@, [id |-> Len(@) + 1,
                   session_id |-> session_id,
                   timestamp |-> activity.timestamp,
                   duration_secs |-> activity.duration_secs,
                   window_title |-> activity.window_title,
                   app_name |-> activity.app_name,
                   tier |-> ActivityTier_as_str(
                                ActivityTier_from_duration(activity.duration_secs)),
                   logged_to_jira |-> FALSE])]

\* ORDER BY timestamp of get_session_activities; rows of equal timestamp stay
\* in rowid order
RECURSIVE InsertByTimestamp(_, _)
InsertByTimestamp(sorted, row) ==
    IF sorted = <<>>
    THEN <<row>>
    ELSE IF Head(sorted).timestamp <= row.timestamp
         THEN <<Head(sorted)>> \o InsertByTimestamp(Tail(sorted), row)
         ELSE <<row>> \o sorted
RECURSIVE OrderByTimestamp(_)
OrderByTimestamp(rows) ==
    IF rows = <<>>
    THEN <<>>
    ELSE InsertByTimestamp(OrderByTimestamp(SubSeq(rows, 1, Len(rows) - 1)),
                           rows[Len(rows)])

\* get_session_activities without the filter on the tier
Database_get_session_activities_AnyTier(db, session_id, tier) ==
    LET keep(a) == a.session_id = session_id
        rows == OrderByTimestamp(SelectSeq(db.activities, keep))
    IN [i \in DOMAIN rows |->
           [rows[i] EXCEPT !.tier = ActivityTier_from_column(@)]]

\* Database::get_session_activities : rows of the session, optionally of one
\* tier, ordered by timestamp
Database_get_session_activities(db, session_id, tier) ==
    LET keep(a) == /\ a.session_id = session_id
                   /\ IsNone(tier) \/ a.tier = ActivityTier_as_str(Unwrap(tier))
        rows == OrderByTimestamp(SelectSeq(db.activities, keep))
    IN [i \in DOMAIN rows |->
           [rows[i] EXCEPT !.tier = ActivityTier_from_column(@)]]

\* mark_activities_logged inverting the flag of the listed rows
Database_mark_activities_logged_Toggle(db, activity_ids) ==
    LET ids == {activity_ids[i] : i \in DOMAIN activity_ids}
    IN [db EXCEPT !.activities =
           [i \in DOMAIN @ |-> IF @[i].id \in ids
                               THEN [@[i] EXCEPT !.logged_to_jira = ~@]
                               ELSE @[i]]]

\* Database::mark_activities_logged : UPDATE ... WHERE id IN (activity_ids)
Database_mark_activities_logged(db, activity_ids) ==
    LET ids == {activity_ids[i] : i \in DOMAIN activity_ids}
    IN [db EXCEPT !.activities =
           [i \in DOMAIN @ |-> IF @[i].id \in ids
                               THEN [@[i] EXCEPT !.logged_to_jira = TRUE]
                               ELSE @[i]]]

\* store_analysis that inserts nothing
Database_store_analysis_Nothing(db, session_id, llm_response, confidence, t) == db

\* Database::store_analysis : INSERT INTO analysis_results
Database_store_analysis(db, session_id, llm_response, confidence, t) ==
    [db EXCEPT !.analysis_results =
        Append(@, [session_id |-> session_id, analyzed_at |-> t,
                   llm_response |-> llm_response, confidence |-> confidence])]

\* seconds per unit of the logical clock: WorkTracker::new looks back five
\* minutes, which is one unit
ClockUnitSecs == 300

\* Database::get_session_break_time : the breaks of the session, an open
\* one counted up to the clock, summed; never negative
RECURSIVE SumBreaks(_, _, _, _)
SumBreaks(db, session_id, t, i) ==
    IF i > Len(db.breaks)
    THEN 0
    ELSE LET b == db.breaks[i]
             end == IF IsSome(b.end_time) THEN Unwrap(b.end_time) ELSE t
         IN (IF b.session_id = session_id
             THEN (end - b.start_time) * ClockUnitSecs ELSE 0)
            + SumBreaks(db, session_id, t, i + 1)
Database_get_session_break_time(db, session_id, t) ==
    LET total == SumBreaks(db, session_id, t, 1)
    IN IF total < 0 THEN 0 ELSE total

RECURSIVE SumDurations(_, _)
SumDurations(rows, i) ==
    IF i > Len(rows) THEN 0
    ELSE rows[i].duration_secs + SumDurations(rows, i + 1)

\* get_session_stats that takes the clock for the end of every session
Database_get_session_stats_IgnoresEnd(db, session_id, t) ==
    LET session == db.sessions[session_id]
        d == (t - session.start_time) * ClockUnitSecs
        activities == Database_get_session_activities(db, session_id, None)
        billable_activities ==
            Database_get_session_activities(db, session_id, Some(Billable))
        micro_activities ==
            Database_get_session_activities(db, session_id, Some(Micro))
    IN [session_id |-> session_id,
        start_time |-> session.start_time,
        end_time |-> session.end_time,
        total_duration_secs |-> IF d < 0 THEN 0 ELSE d,
        break_duration_secs |-> Database_get_session_break_time(db, session_id, t),
        billable_time_secs |-> SumDurations(billable_activities, 1),
        micro_time_secs |-> SumDurations(micro_activities, 1),
        total_activities |-> Len(activities),
        billable_activities |-> Len(billable_activities),
        micro_activities |-> Len(micro_activities)]

\* Database::get_session_stats at clock value t : the session lasts from its
\* start to its end, or to the clock if it has no end; `.max(0)` on the
\* difference
Database_get_session_stats(db, session_id, t) ==
    LET session == db.sessions[session_id]
        end == IF IsSome(session.end_time) THEN Unwrap(session.end_time) ELSE t
        d == (end - session.start_time) * ClockUnitSecs
        activities == Database_get_session_activities(db, session_id, None)
        billable_activities ==
            Database_get_session_activities(db, session_id, Some(Billable))
        micro_activities ==
            Database_get_session_activities(db, session_id, Some(Micro))
    IN [session_id |-> session_id,
        start_time |-> session.start_time,
        end_time |-> session.end_time,
        total_duration_secs |-> IF d < 0 THEN 0 ELSE d,
        break_duration_secs |-> Database_get_session_break_time(db, session_id, t),
        billable_time_secs |-> SumDurations(billable_activities, 1),
        micro_time_secs |-> SumDurations(micro_activities, 1),
        total_activities |-> Len(activities),
        billable_activities |-> Len(billable_activities),
        micro_activities |-> Len(micro_activities)]

\* --------------------------------------------------------- screenpipe.rs
\* Text that the code inspects character by character (window titles, app
\* names, issue keys) is a sequence of one-character strings.
\* ScreenpipeClient::get_recent_activities : every entry becomes an Activity
\* of the fixed duration
FixedUnitDuration == 60
Activity(timestamp, app_name, window_title) ==
    [timestamp |-> timestamp, duration_secs |-> FixedUnitDuration,
     window_title |-> window_title, app_name |-> app_name]

\* --------------------------------------------------------------- jira.rs
\* JiraClient::new : cache_duration_secs
cache_duration_secs == 7200
JiraApiError == "Jira API error"
JiraParseError == "Failed to parse Jira response"

\* JiraClient::new, together with the worklogs the Jira server has accepted
\* from this client
JiraClient_new == [assigned_issues_cache |-> None, worklogs |-> <<>>]

\* what the server may answer to the search of fetch_assigned_issues_from_api
\* (issues are held by key; the summary decides nothing)
SearchFailed == [ok |-> FALSE, issues |-> <<>>]
\* what becomes of a worklog POST: accepted and answered, refused, or
\* accepted with an answer that does not parse
WorklogAccepted == "logged"
WorklogRejected == "refused"
WorklogUnparsed == "unparsed"

\* JiraClient::clear_cache
JiraClient_clear_cache(client) == [client EXCEPT !.assigned_issues_cache = None]

\* get_assigned_issues with an entry that is still served at the TTL
JiraClient_get_assigned_issues_FreshAtTtl(client, t, api) ==
    LET cache == client.assigned_issues_cache
    IN IF /\ IsSome(cache)
          /\ (t - Unwrap(cache).cached_at) * ClockUnitSecs <= cache_duration_secs
       THEN [jira |-> client, res |-> Ok, issues |-> Unwrap(cache).issues,
             remote |-> FALSE]
       ELSE IF ~api.ok
            THEN [jira |-> client, res |-> JiraApiError, issues |-> <<>>,
                  remote |-> TRUE]
            ELSE [jira |-> [client EXCEPT !.assigned_issues_cache =
                               Some([issues |-> api.issues, cached_at |-> t])],
                  res |-> Ok, issues |-> api.issues, remote |-> TRUE]

\* JiraClient::get_assigned_issues ; `api` is the server's answer if asked
JiraClient_get_assigned_issues(client, t, api) ==
    LET cache == client.assigned_issues_cache
    IN IF /\ IsSome(cache)
          /\ (t - Unwrap(cache).cached_at) * ClockUnitSecs < cache_duration_secs
       THEN [jira |-> client, res |-> Ok, issues |-> Unwrap(cache).issues,
             remote |-> FALSE]
       ELSE IF ~api.ok
            THEN [jira |-> client, res |-> JiraApiError, issues |-> <<>>,
                  remote |-> TRUE]
            ELSE [jira |-> [client EXCEPT !.assigned_issues_cache =
                               Some([issues |-> api.issues, cached_at |-> t])],
                  res |-> Ok, issues |-> api.issues, remote |-> TRUE]

\* is_assigned_to_me answering true for every key
JiraClient_is_assigned_to_me_Always(client, issue_key, t, api) ==
    LET g == JiraClient_get_assigned_issues(client, t, api)
    IN [jira |-> g.jira, res |-> g.res, remote |-> g.remote, assigned |-> TRUE]

\* JiraClient::is_assigned_to_me
JiraClient_is_assigned_to_me(client, issue_key, t, api) ==
    LET g == JiraClient_get_assigned_issues(client, t, api)
    IN [jira |-> g.jira, res |-> g.res, remote |-> g.remote,
        assigned |-> \E i \in DOMAIN g.issues : g.issues[i] = issue_key]

\* JiraClient::log_work
JiraClient_log_work(client, issue_key, activity, outcome) ==
    LET worklog == [issue_key |-> issue_key,
                    comment |-> <<activity.app_name, activity.window_title>>,
                    time_spent_seconds |-> activity.duration_secs,
                    started |-> activity.timestamp]
    IN CASE outcome = WorklogAccepted ->
              [jira |-> [client EXCEPT !.worklogs = Append(@, worklog)], res |-> Ok]
         [] outcome = WorklogUnparsed ->
              [jira |-> [client EXCEPT !.worklogs = Append(@, worklog)],
               res |-> JiraParseError]
         [] OTHER -> [jira |-> client, res |-> JiraApiError]

\* the character classes of the pattern ([A-Z]+-\d+)
UpperCase ==
    {"A", "B", "C", "D", "E", "F", "G", "H", "I", "J", "K", "L", "M",
     "N", "O", "P", "Q", "R", "S", "T", "U", "V", "W", "X", "Y", "Z"}
Digit == {"0", "1", "2", "3", "4", "5", "6", "7", "8", "9"}

\* the last position of the run of `class` characters that starts at i
\* (i - 1 if text[i] is not in the class)
RECURSIVE RunEnd(_, _, _)
RunEnd(text, i, class) ==
    IF i <= Len(text) /\ text[i] \in class
    THEN RunEnd(text, i + 1, class)
    ELSE i - 1

\* the match of ([A-Z]+-\d+) that starts at position i, if there is one
MatchAt(text, i) ==
    LET l == RunEnd(text, i, UpperCase)
        d == RunEnd(text, l + 2, Digit)
    IN IF l >= i /\ l + 1 <= Len(text) /\ text[l + 1] = "-" /\ d >= l + 2
       THEN Some(SubSeq(text, i, d))
       ELSE None

\* JiraClient::find_issue_from_activity : the leftmost match in
\* "<window_title> <app_name>"
JiraClient_find_issue_from_activity(activity) ==
    LET text == activity.window_title \o <<" ">> \o activity.app_name
        starts == {i \in 1..Len(text) : IsSome(MatchAt(text, i))}
    IN IF starts = {}
       THEN None
       ELSE MatchAt(text, CHOOSE i \in starts : \A j \in starts : i <= j)

\* ---------------------------------------------------------------- llm.rs
LlmApiError == "LLM API request failed"
\* LLMAnalyzer::analyze_batch : the request is posted and the response is
\* returned as parsed; `answer` is what the LLM service sends back
LLMAnalyzer_analyze_batch(answer) ==
    IF answer.ok
    THEN [res |-> Ok, analysis |-> answer.analysis]
    ELSE [res |-> LlmApiError, analysis |-> answer.analysis]

\* ----------------------------------------------------------- tracker.rs
\* WorkTracker::new : last_sync = Utc::now() - Duration::minutes(5)
LastSyncLookback == 1

\* the HashMap key of consolidate_activities
ConsolidationKey(activity) ==
    activity.app_name \o <<":">> \o activity.window_title

\* the loop of consolidate_activities over the batch, building the HashMap
RECURSIVE consolidate_fold(_, _)
consolidate_fold(activities, consolidated) ==
    IF activities = <<>>
    THEN consolidated
    ELSE LET activity == Head(activities)
             key == ConsolidationKey(activity)
         IN consolidate_fold(
                Tail(activities),
                IF key \in DOMAIN consolidated
                THEN [consolidated EXCEPT ![key].duration_secs =
                                              @ + activity.duration_secs]
                ELSE consolidated @@ (key :> activity))

\* WorkTracker::consolidate_activities : into_values().collect() yields the
\* values in an unspecified order, so the result is any of these sequences
consolidate_activities(activities) ==
    LET consolidated == consolidate_fold(activities, <<>>)
        keys == DOMAIN consolidated
        orders == {o \in [1..Cardinality(keys) -> keys] :
                      \A i, j \in DOMAIN o : i # j => o[i] # o[j]}
    IN {[i \in DOMAIN o |-> consolidated[o[i]]] : o \in orders}

\* the `for activity in &consolidated` loop of WorkTracker::sync.  The store
\* may refuse an INSERT: fail_at is the position of the activity whose
\* store_activity returns the error that `?` propagates, 0 if none does.
StoreError == "store error"
RECURSIVE store_all(_, _, _, _)
store_all(db, session_id, consolidated, fail_at) ==
    IF consolidated = <<>>
    THEN [db |-> db, res |-> Ok]
    ELSE IF fail_at = 1
         THEN [db |-> db, res |-> StoreError]
         ELSE store_all(Database_store_activity(db, session_id, Head(consolidated)),
                        session_id, Tail(consolidated),
                        IF fail_at = 0 THEN 0 ELSE fail_at - 1)

\* WorkTracker::sync from the answer of the fetch onwards: an empty batch
\* moves the cursor; otherwise the batch is consolidated and stored, and the
\* cursor moves once every row is stored
sync_fetched(db, cursor, session_id, consolidated, fail_at, t) ==
    LET stored == store_all(db, session_id, consolidated, fail_at)
    IN IF consolidated = <<>>
       THEN [db |-> db, last_sync |-> t, res |-> Ok]
       ELSE IF stored.res # Ok
            THEN [db |-> stored.db, last_sync |-> cursor, res |-> stored.res]
            ELSE [db |-> stored.db, last_sync |-> t, res |-> Ok]

\* The fields of WorkTracker that analyze_and_log_batch reads and writes are
\* passed as one record `self`: config, database, jira, last_llm_analysis,
\* issue_override, and trace, to which every call to Jira, to the LLM service
\* and every write of the store is appended.  The answers of Jira and of the
\* LLM service are passed as `env`: env.api[i] and env.log[i] answer the i-th
\* search and the i-th worklog POST, env.llm answers the analysis; a call past
\* the end of the answers fails.
NthOr(answers, i, default) ==
    IF i \in DOMAIN answers THEN answers[i] ELSE default
Emit(self, event) == [self EXCEPT !.trace = Append(@, event)]
\* the ids of a list of stored activities
Ids(activities) == [i \in DOMAIN activities |-> activities[i].id]
\* the number of calls of one kind in a trace
Calls(tr, op) == Cardinality({i \in DOMAIN tr : tr[i].op = op})

\* log_and_mark that marks whatever log_work returns
log_and_mark_WhateverReturned(self, issue_key, activity, ids, outcome) ==
    LET l == JiraClient_log_work(self.jira, issue_key, activity, outcome)
        called == Emit([self EXCEPT !.jira = l.jira],
                       [op |-> "log_work", issue_key |-> issue_key,
                        time_spent_seconds |-> activity.duration_secs,
                        res |-> l.res, ids |-> ids])
    IN Emit([called EXCEPT !.database = Database_mark_activities_logged(@, ids)],
            [op |-> "mark_activities_logged", ids |-> ids])

\* log_and_mark that marks only the first id of the list
log_and_mark_FirstIdOnly(self, issue_key, activity, ids, outcome) ==
    LET l == JiraClient_log_work(self.jira, issue_key, activity, outcome)
        called == Emit([self EXCEPT !.jira = l.jira],
                       [op |-> "log_work", issue_key |-> issue_key,
                        time_spent_seconds |-> activity.duration_secs,
                        res |-> l.res, ids |-> ids])
    IN IF l.res = Ok
       THEN Emit([called EXCEPT !.database =
                     Database_mark_activities_logged(@, <<Head(ids)>>)],
                 [op |-> "mark_activities_logged", ids |-> ids])
       ELSE called

\* jira.log_work(..) and, on Ok, database.mark_activities_logged(ids): the body
\* of both export loops once the issue is chosen
log_and_mark(self, issue_key, activity, ids, outcome) ==
    LET l == JiraClient_log_work(self.jira, issue_key, activity, outcome)
        called == Emit([self EXCEPT !.jira = l.jira],
                       [op |-> "log_work", issue_key |-> issue_key,
                        time_spent_seconds |-> activity.duration_secs,
                        res |-> l.res, ids |-> ids])
    IN IF l.res = Ok
       THEN Emit([called EXCEPT !.database =
                     Database_mark_activities_logged(@, ids)],
                 [op |-> "mark_activities_logged", ids |-> ids])
       ELSE called

\* a test that never finds the confidence too low
confidence_too_low_Never(issue_match, cfg) == FALSE

\* `issue_match.confidence < self.config.llm.confidence_threshold`
confidence_too_low(issue_match, cfg) ==
    issue_match.confidence < cfg.confidence_threshold

\* the loop over the issue matches leaving at the first log_work that fails
RECURSIVE log_issue_matches_StopsAtFailure(_, _, _, _, _, _)
log_issue_matches_StopsAtFailure(self, issues, start_time, env, i, n) ==
    IF i > Len(issues)
    THEN self
    ELSE LET issue_match == issues[i]
             activity == [timestamp |-> start_time,
                          duration_secs |-> issue_match.total_time_secs,
                          window_title |-> issue_match.summary,
                          app_name |-> self.config.company_name]
             next == log_and_mark(self, issue_match.key, activity,
                                  issue_match.activities_included,
                                  NthOr(env.log, n + 1, WorklogRejected))
         IN IF confidence_too_low(issue_match, self.config)
            THEN log_issue_matches_StopsAtFailure(self, issues, start_time,
                                                  env, i + 1, n)
            ELSE IF next.trace[Len(next.trace)].op = "log_work"
                 THEN next
                 ELSE log_issue_matches_StopsAtFailure(next, issues, start_time,
                                                       env, i + 1, n + 1)

\* the `for issue_match in &analysis_result.analysis.issues` loop of
\* analyze_and_log_batch; i is the index of the issue match, n the number of
\* worklog POSTs made so far
RECURSIVE log_issue_matches(_, _, _, _, _, _)
log_issue_matches(self, issues, start_time, env, i, n) ==
    IF i > Len(issues)
    THEN self
    ELSE LET issue_match == issues[i]
             activity == [timestamp |-> start_time,
                          duration_secs |-> issue_match.total_time_secs,
                          window_title |-> issue_match.summary,
                          app_name |-> self.config.company_name]
         IN IF confidence_too_low(issue_match, self.config)
            THEN log_issue_matches(self, issues, start_time, env, i + 1, n)
            ELSE log_issue_matches(
                     log_and_mark(self, issue_match.key, activity,
                                  issue_match.activities_included,
                                  NthOr(env.log, n + 1, WorklogRejected)),
                     issues, start_time, env, i + 1, n + 1)

\* the loop of fallback_regex_logging preferring the key found in the unit
\* to the override
RECURSIVE fallback_loop_ScanFirst(_, _, _, _, _, _, _)
fallback_loop_ScanFirst(self, override, activities, t, env, i, n) ==
    IF i > Len(activities)
    THEN self
    ELSE LET stored_activity == activities[i]
             activity == [timestamp |-> stored_activity.timestamp,
                          duration_secs |-> stored_activity.duration_secs,
                          window_title |-> stored_activity.window_title,
                          app_name |-> stored_activity.app_name]
             scanned == JiraClient_find_issue_from_activity(activity)
             target_issue == IF IsSome(scanned) THEN scanned ELSE override
             issue_key == Unwrap(target_issue)
             a == JiraClient_is_assigned_to_me(self.jira, issue_key, t,
                                               NthOr(env.api, n + 1, SearchFailed))
             asked == Emit([self EXCEPT !.jira = a.jira],
                           [op |-> "is_assigned_to_me", issue_key |-> issue_key,
                            res |-> a.res, assigned |-> a.assigned,
                            remote |-> a.remote, id |-> stored_activity.id])
         IN IF stored_activity.logged_to_jira \/ IsNone(target_issue)
            THEN fallback_loop_ScanFirst(self, override, activities, t, env, i + 1, n)
            ELSE IF a.res = Ok /\ a.assigned
                 THEN fallback_loop_ScanFirst(
                          log_and_mark(asked, issue_key, activity,
                                       <<stored_activity.id>>,
                                       NthOr(env.log, n + 1, WorklogRejected)),
                          override, activities, t, env, i + 1, n + 1)
                 ELSE fallback_loop_ScanFirst(asked, override, activities, t, env,
                                    i + 1, n + 1)

\* the `for stored_activity in activities` loop of fallback_regex_logging; i is
\* the index of the activity, `override` the value of issue_override read
\* before the loop, n the number of searches and worklog POSTs asked so far
RECURSIVE fallback_loop(_, _, _, _, _, _, _)
fallback_loop(self, override, activities, t, env, i, n) ==
    IF i > Len(activities)
    THEN self
    ELSE LET stored_activity == activities[i]
             activity == [timestamp |-> stored_activity.timestamp,
                          duration_secs |-> stored_activity.duration_secs,
                          window_title |-> stored_activity.window_title,
                          app_name |-> stored_activity.app_name]
             target_issue == IF IsSome(override)
                             THEN override
                             ELSE JiraClient_find_issue_from_activity(activity)
             issue_key == Unwrap(target_issue)
             a == JiraClient_is_assigned_to_me(self.jira, issue_key, t,
                                               NthOr(env.api, n + 1, SearchFailed))
             asked == Emit([self EXCEPT !.jira = a.jira],
                           [op |-> "is_assigned_to_me", issue_key |-> issue_key,
                            res |-> a.res, assigned |-> a.assigned,
                            remote |-> a.remote, id |-> stored_activity.id])
         IN IF stored_activity.logged_to_jira \/ IsNone(target_issue)
            THEN fallback_loop(self, override, activities, t, env, i + 1, n)
            ELSE IF a.res = Ok /\ a.assigned
                 THEN fallback_loop(
                          log_and_mark(asked, issue_key, activity,
                                       <<stored_activity.id>>,
                                       NthOr(env.log, n + 1, WorklogRejected)),
                          override, activities, t, env, i + 1, n + 1)
                 ELSE fallback_loop(asked, override, activities, t, env,
                                    i + 1, n + 1)

\* WorkTracker::fallback_regex_logging
fallback_regex_logging(self, activities, t, env) ==
    IF self.config.jira_enabled
    THEN fallback_loop(self, self.issue_override, activities, t, env, 1, 0)
    ELSE self

\* WorkTracker::analyze_and_log_batch
analyze_and_log_batch(self0, session_id, t, env) ==
    LET self == [self0 EXCEPT !.trace = <<>>]
        db == self.database
        start_time == db.sessions[session_id].start_time
        billable == Database_get_session_activities(db, session_id, Some(Billable))
        micro == Database_get_session_activities(db, session_id, Some(Micro))
        g == JiraClient_get_assigned_issues(self.jira, t,
                                            NthOr(env.api, 1, SearchFailed))
        fetched == Emit([self EXCEPT !.jira = g.jira],
                        [op |-> "get_assigned_issues", res |-> g.res,
                         remote |-> g.remote])
        a == LLMAnalyzer_analyze_batch(env.llm)
        analyzed == Emit(fetched,
                         [op |-> "analyze_batch", assigned_issues |-> g.issues,
                          billable |-> Ids(billable), micro |-> Ids(micro),
                          res |-> a.res])
        stored == Emit([analyzed EXCEPT !.database =
                           Database_store_analysis(@, session_id, a.analysis,
                                                   a.analysis.confidence, t)],
                       [op |-> "store_analysis", session_id |-> session_id])
        logged == log_issue_matches(stored, a.analysis.issues, start_time,
                                    env, 1, 0)
        fallback == fallback_regex_logging(self, billable, t, env)
    IN IF billable = <<>> /\ micro = <<>>
       THEN [self |-> self, res |-> Ok]
       ELSE IF self.config.llm_enabled /\ self.config.jira_enabled
            THEN IF g.res # Ok
                 THEN [self |-> fetched, res |-> g.res]
                 ELSE IF g.issues = <<>>
                      THEN [self |-> fetched, res |-> Ok]
                      ELSE IF a.res # Ok
                           THEN [self |-> analyzed, res |-> a.res]
                           ELSE [self |-> [logged EXCEPT !.last_llm_analysis = t],
                                 res |-> Ok]
            ELSE [self |-> [fallback EXCEPT !.last_llm_analysis = t],
                  res |-> Ok]

\* WorkTracker::start_tracking
WorkTracker_start_tracking(sm, db, t) ==
    LET c == Database_create_session(db, t)
        r == StateManager_start_tracking(sm, c.id, t)
    IN [sm |-> r.sm, db |-> c.db, res |-> r.res]

\* WorkTracker::pause_tracking
WorkTracker_pause_tracking(sm, db, t) ==
    IF IsNone(sm.current_session)
    THEN [sm |-> sm, db |-> db, res |-> NoActiveSession]
    ELSE LET c == Database_create_break(db, Unwrap(sm.current_session).id, t)
             r == StateManager_pause_tracking(sm, c.id, t)
         IN [sm |-> r.sm, db |-> c.db, res |-> r.res]

\* WorkTracker::resume_tracking that skips database.end_break
WorkTracker_resume_tracking_NoEndBreak(sm, db, t) ==
    IF IsNone(sm.current_break)
    THEN [sm |-> sm, db |-> db, res |-> NoActiveBreak]
    ELSE LET r == StateManager_resume_tracking(sm, t)
         IN [sm |-> r.sm, db |-> db, res |-> r.res]

\* WorkTracker::resume_tracking
WorkTracker_resume_tracking(sm, db, t) ==
    IF IsNone(sm.current_break)
    THEN [sm |-> sm, db |-> db, res |-> NoActiveBreak]
    ELSE LET d == Database_end_break(db, Unwrap(sm.current_break).id, t)
             r == StateManager_resume_tracking(sm, t)
         IN [sm |-> r.sm, db |-> d, res |-> r.res]

\* WorkTracker::stop_tracking
WorkTracker_stop_tracking(sm, self, t, env) ==
    IF IsNone(sm.current_session)
    THEN [sm |-> sm, self |-> self, res |-> NoActiveSession]
    ELSE LET session_id == Unwrap(sm.current_session).id
             ended == [self EXCEPT !.database =
                          Database_end_session(@, session_id, t)]
             r == StateManager_stop_tracking(sm, t)
             a == analyze_and_log_batch(ended, session_id, t, env)
         IN IF r.res # Ok
            THEN [sm |-> r.sm, self |-> ended, res |-> r.res]
            ELSE IF self.config.analyze_on_stop
                 THEN [sm |-> r.sm, self |-> a.self, res |-> a.res]
                 ELSE [sm |-> r.sm, self |-> ended, res |-> Ok]

\* ------------------------------------------------- tokio tasks and locks
\* the control requests in flight, the /status request and the two loops
Handlers == {"h1", "h2"}
StatusTask == "status"
SyncTask == "sync"
LlmTask == "llm"
Procs == Handlers \cup {StatusTask, SyncTask, LlmTask}
Commands == {"start", "pause", "resume", "stop"}

\* a task that is not running: no request in flight, or a loop asleep
Idle == [pc |-> "idle", cmd |-> "none", id |-> 0, res |-> Ok]

\* tokio::sync::RwLock::new
RwLock_new == [writer |-> None, readers |-> {}]

\* RwLock::write().await completes only with no writer and no reader
RwLock_can_write_IgnoringReaders(l) == IsNone(l.writer)

RwLock_can_write(l) == IsNone(l.writer) /\ l.readers = {}

\* RwLock::read().await completes only with no writer
RwLock_can_read(l) == IsNone(l.writer)

\* ------------------------------------- the collaborators of the export
\* texts seen on screen and issue keys
KeyA == <<"A", "-", "1">>
KeyB == <<"B", "-", "2">>
TitleA == <<"f", "i", "x", " ", "A", "-", "1">>
AppX == <<"X">>
CompanyName == <<"C">>
ConfidenceThreshold == 75

\* Config::default with tracking.analyze_on_stop as loaded from the file:
\* jira.enabled is true, llm.enabled is false; llm.confidence_threshold is in
\* percent
Configs ==
    {[analyze_on_stop |-> a, jira_enabled |-> TRUE, llm_enabled |-> FALSE,
      confidence_threshold |-> ConfidenceThreshold,
      company_name |-> CompanyName] : a \in BOOLEAN}

\* the WorkTracker fields that the export reads and writes
Self ==
    [config |-> config, database |-> database, jira |-> jira,
     last_llm_analysis |-> last_llm_analysis, issue_override |-> issue_override,
     trace |-> trace]

\* sequences of exactly n elements of S
SeqOfLen(S, n) == [1..n -> S]

\* the answers of the Jira search
SearchAnswers ==
    {SearchFailed, [ok |-> TRUE, issues |-> <<>>], [ok |-> TRUE, issues |-> <<KeyA, KeyB>>]}

\* the outcomes of a worklog POST; the server accepts no more than
\* MaxWorklogs worklogs
LogOutcomes(jr) ==
    {WorklogRejected} \cup (IF Len(jr.worklogs) < MaxWorklogs THEN {WorklogAccepted, WorklogUnparsed} ELSE {})

\* the answers of the LLM service: a failure, or an analysis with at most
\* MaxMatches issue matches, each just under or at the confidence threshold
\* and naming one or two stored activities of the session; its unmatched
\* bucket names the activities of the session that no match names.  The
\* service answers no more than MaxAnalyses analyses.
MaxMatches == 2
LLMFailed ==
    [ok |-> FALSE,
     analysis |-> [confidence |-> 0, issues |-> <<>>,
                   unmatched |-> [activities |-> <<>>]]]
LLMAnswers(db, session_id) ==
    LET rows == Database_get_session_activities(db, session_id, None)
        lists == {<<rows[i].id>> : i \in DOMAIN rows} \cup
                 {<<rows[i].id, rows[j].id>> : i \in {1} \cap DOMAIN rows,
                                                j \in {2} \cap DOMAIN rows}
        IssueMatches == [key : {KeyA}, total_time_secs : {90}, summary : {TitleA},
                         activities_included : lists,
                         confidence : {ConfidenceThreshold - 1, ConfidenceThreshold}]
        Named(issues) == UNION {{issues[m].activities_included[k] :
                                    k \in DOMAIN issues[m].activities_included} :
                                  m \in DOMAIN issues}
        Unmatched(issues) ==
            Ids(SelectSeq(rows, LAMBDA a : a.id \notin Named(issues)))
    IN {LLMFailed} \cup
       (IF Len(db.analysis_results) < MaxAnalyses
        THEN {[ok |-> TRUE,
               analysis |-> [confidence |-> 80, issues |-> issues,
                             unmatched |-> [activities |-> Unmatched(issues)]]] :
                issues \in UNION {SeqOfLen(IssueMatches, n) : n \in 0..MaxMatches}}
        ELSE {})

\* what the collaborators may answer during one export of the session: the
\* export asks nothing when the session has no activity; with the LLM it
\* searches once, asks for one analysis and posts one worklog per issue
\* match; without it, it searches and posts once per billable activity
NoAnswers == [api |-> <<>>, llm |-> LLMFailed, log |-> <<>>]
Smaller(m, n) == IF m < n THEN m ELSE n
ExportEnvs(self, session) ==
    LET rows(tier) ==
            Database_get_session_activities(self.database, Unwrap(session).id, tier)
        calls == Smaller(Len(rows(Some(Billable))), MaxExportCalls)
    IN IF IsNone(session) \/ rows(None) = <<>>
       THEN {NoAnswers}
       ELSE IF self.config.llm_enabled /\ self.config.jira_enabled
            THEN LET accepted(answer) ==
                         Len(SelectSeq(answer.analysis.issues,
                                       LAMBDA m : m.confidence >=
                                                    self.config.confidence_threshold))
                 IN UNION {IF IsSome(self.jira.assigned_issues_cache) \/
                              (search.ok /\ search.issues # <<>>)
                           THEN UNION {[api : {<<search>>}, llm : {answer},
                                        log : SeqOfLen(LogOutcomes(self.jira),
                                                       accepted(answer))] :
                                        answer \in LLMAnswers(self.database,
                                                              Unwrap(session).id)}
                           ELSE {[api |-> <<search>>, llm |-> LLMFailed, log |-> <<>>]} :
                             search \in SearchAnswers}
            ELSE IF self.config.jira_enabled
                 THEN [api : SeqOfLen(SearchAnswers, calls),
                       llm : {LLMFailed},
                       log : SeqOfLen(LogOutcomes(self.jira), calls)]
                 ELSE {NoAnswers}

\* ------------------------------------------------------------ daemon.rs
HttpOk == "200 OK"
BadRequest == "400 Bad Request"
InternalServerError == "500 Internal Server Error"
Is2xx(status) == status = HttpOk

\* the Result of a tracker command mapped to the HTTP response status
Respond(cmd, res, errStatus) ==
    [cmd |-> cmd, result |-> res, status |-> IF res = Ok THEN HttpOk ELSE errStatus]

\* start_tracking_handler
start_tracking_handler ==
    /\ Len(database.sessions) < MaxSessions
    /\ LET r == WorkTracker_start_tracking(state_manager, database, now)
       IN /\ state_manager' = r.sm
          /\ database' = r.db
          /\ last' = Respond("start", r.res, BadRequest)
    /\ UNCHANGED <<config, last_sync, now, task, locks,
                 jira, last_llm_analysis, issue_override, trace, call>>

\* pause_tracking_handler
pause_tracking_handler ==
    /\ Len(database.breaks) < MaxBreaks
    /\ LET r == WorkTracker_pause_tracking(state_manager, database, now)
       IN /\ state_manager' = r.sm
          /\ database' = r.db
          /\ last' = Respond("pause", r.res, BadRequest)
    /\ UNCHANGED <<config, last_sync, now, task, locks,
                 jira, last_llm_analysis, issue_override, trace, call>>

\* resume_tracking_handler
resume_tracking_handler ==
    /\ LET r == WorkTracker_resume_tracking(state_manager, database, now)
       IN /\ state_manager' = r.sm
          /\ database' = r.db
          /\ last' = Respond("resume", r.res, BadRequest)
    /\ UNCHANGED <<config, last_sync, now, task, locks,
                 jira, last_llm_analysis, issue_override, trace, call>>

\* stop_tracking_handler
stop_tracking_handler ==
    /\ \E env \in ExportEnvs(Self, state_manager.current_session) :
          LET r == WorkTracker_stop_tracking(state_manager, Self, now, env)
          IN /\ state_manager' = r.sm
             /\ database' = r.self.database
             /\ jira' = r.self.jira
             /\ last_llm_analysis' = r.self.last_llm_analysis
             /\ trace' = r.self.trace
             /\ last' = Respond("stop", r.res, InternalServerError)
    /\ UNCHANGED <<config, last_sync, now, task, locks, issue_override, call>>

\* the wall clock advances
Tick ==
    /\ now < MaxTime
    /\ now' = now + 1
    /\ UNCHANGED <<state_manager, database, config, last_sync, last, task, locks,
                 jira, last_llm_analysis, issue_override, trace, call>>

NoRequest == [cmd |-> "none", result |-> Ok, status |-> HttpOk]
\* no function is examined on its own
NoCall == [fn |-> "none"]

\* run_daemon : Config::load, WorkTracker::new
Constructed ==
    /\ state_manager = StateManager_new
    /\ database = Database_new
    /\ last_sync = 0 - LastSyncLookback
    /\ now = 0
    /\ last = NoRequest
    /\ task = [p \in Procs |-> Idle]
    /\ locks = [tracker |-> RwLock_new, state_manager |-> RwLock_new,
                issue_override |-> RwLock_new]
    /\ jira = JiraClient_new
    /\ last_llm_analysis = 0
    /\ issue_override = None
    /\ trace = <<>>

Init == Constructed /\ config \in Configs /\ call = NoCall

Next ==
    \/ start_tracking_handler
    \/ pause_tracking_handler
    \/ resume_tracking_handler
    \/ stop_tracking_handler
    \/ Tick

Spec == Init /\ [][Next]_vars

\* ------------------------------------------- StateManager on its own
\* The transitions of StateManager called directly with arbitrary ids, as
\* state.rs test_state_transitions does.
SM_start(id) ==
    /\ LET r == StateManager_start_tracking(state_manager, id, now)
       IN state_manager' = r.sm /\ last' = [cmd |-> "start", result |-> r.res, status |-> HttpOk]
    /\ UNCHANGED <<database, config, last_sync, now, task, locks,
                 jira, last_llm_analysis, issue_override, trace, call>>

SM_pause(id) ==
    /\ LET r == StateManager_pause_tracking(state_manager, id, now)
       IN state_manager' = r.sm /\ last' = [cmd |-> "pause", result |-> r.res, status |-> HttpOk]
    /\ UNCHANGED <<database, config, last_sync, now, task, locks,
                 jira, last_llm_analysis, issue_override, trace, call>>

SM_resume ==
    /\ LET r == StateManager_resume_tracking(state_manager, now)
       IN state_manager' = r.sm /\ last' = [cmd |-> "resume", result |-> r.res, status |-> HttpOk]
    /\ UNCHANGED <<database, config, last_sync, now, task, locks,
                 jira, last_llm_analysis, issue_override, trace, call>>

SM_stop ==
    /\ LET r == StateManager_stop_tracking(state_manager, now)
       IN state_manager' = r.sm /\ last' = [cmd |-> "stop", result |-> r.res, status |-> HttpOk]
    /\ UNCHANGED <<database, config, last_sync, now, task, locks,
                 jira, last_llm_analysis, issue_override, trace, call>>

SMNext ==
    \/ \E id \in 1..MaxId : SM_start(id)
    \/ \E id \in 1..MaxId : SM_pause(id)
    \/ SM_resume
    \/ SM_stop
    \/ Tick

SMSpec == Init /\ [][SMNext]_vars

\* ------------------------------------------ the daemon task by task
\* The same handlers and loops, one step per lock acquisition, store call,
\* state-machine call and collaborator call, interleaved as tokio may
\* interleave them.  The clock stands still in this specification.
SetTask(p, pcv, id, res) ==
    [task EXCEPT ![p].pc = pcv, ![p].id = id, ![p].res = res]
Goto(p, pcv) == [task EXCEPT ![p].pc = pcv]
\* the batches ScreenpipeClient::get_recent_activities may return
Batches ==
    {<<>>, <<Activity(now, AppX, TitleA), Activity(now, AppX, TitleA)>>}

\* a POST /start, /pause, /resume or /stop arrives (daemon.rs:94-97); which
\* of the four it is has no effect before the handler holds the tracker
\* lock, and is drawn there
Request(p) ==
    /\ p \in Handlers /\ task[p].pc = "idle"
    /\ task' = [task EXCEPT ![p] = [Idle EXCEPT !.pc = "lock_tracker", !.cmd = "control"]]
    /\ UNCHANGED <<state_manager, database, config, last_sync, now, last, locks,
                 jira, last_llm_analysis, issue_override, trace, call>>

\* a GET /status arrives (daemon.rs:92)
StatusRequest ==
    /\ task[StatusTask].pc = "idle"
    /\ task' = [task EXCEPT ![StatusTask] =
                   [Idle EXCEPT !.pc = "st_lock_tracker", !.cmd = "status"]]
    /\ UNCHANGED <<state_manager, database, config, last_sync, now, last, locks,
                 jira, last_llm_analysis, issue_override, trace, call>>

\* the sleep of a background loop ends (daemon.rs:54, daemon.rs:66)
Wake(p) ==
    /\ p \in {SyncTask, LlmTask} /\ task[p].pc = "idle"
    /\ p = SyncTask => Len(database.activities) < MaxActivities
    /\ task' = [task EXCEPT ![p] = [Idle EXCEPT !.pc = "lock_tracker", !.cmd = p]]
    /\ UNCHANGED <<state_manager, database, config, last_sync, now, last, locks,
                 jira, last_llm_analysis, issue_override, trace, call>>

\* a task gives up every guard it holds (guards drop when the function or
\* loop body ends)
DropGuards(p) ==
    [tracker |-> [writer |-> IF locks.tracker.writer = Some(p)
                             THEN None ELSE locks.tracker.writer,
                  readers |-> locks.tracker.readers \ {p}],
     state_manager |-> [writer |-> IF locks.state_manager.writer = Some(p)
                                   THEN None ELSE locks.state_manager.writer,
                        readers |-> locks.state_manager.readers \ {p}],
     issue_override |-> [writer |-> IF locks.issue_override.writer = Some(p)
                                    THEN None ELSE locks.issue_override.writer,
                         readers |-> locks.issue_override.readers \ {p}]]

\* Returned with a loop that ends at the first iteration that fails
Returned_LoopExits(p, res) ==
    IF p \in Handlers /\ res = Ok
    THEN [task EXCEPT ![p] = [Idle EXCEPT !.pc = "st_lock_tracker", !.cmd = "status"]]
    ELSE IF p \in {SyncTask, LlmTask} /\ res # Ok
         THEN [task EXCEPT ![p] = [Idle EXCEPT !.pc = "exited"]]
         ELSE [task EXCEPT ![p] = Idle]

\* the command or iteration returns `res`: guards are dropped; a handler that
\* succeeded goes on to call status_handler (daemon.rs:189-203), anything
\* else is finished.  The response is `res`; `last` is kept for the
\* handler-level specification.
Returned(p, res) ==
    IF p \in Handlers /\ res = Ok
    THEN [task EXCEPT ![p] = [Idle EXCEPT !.pc = "st_lock_tracker", !.cmd = "status"]]
    ELSE [task EXCEPT ![p] = Idle]

\* LockTrackerWrite with a lock that excludes nobody
LockTrackerWrite_NoExclusion(p) ==
    /\ task[p].pc = "lock_tracker"
    /\ locks' = [locks EXCEPT !.tracker.writer = Some(p)]
    /\ IF p \in Handlers
       THEN \E cmd \in Commands :
              /\ cmd = "start" => Len(database.sessions) < ConcMaxSessions
              /\ cmd = "pause" => Len(database.breaks) < ConcMaxBreaks
              /\ task' = [task EXCEPT ![p].cmd = cmd,
                                      ![p].pc = IF cmd = "start" THEN "db" ELSE "read"]
       ELSE task' = Goto(p, "read")
    /\ UNCHANGED <<state_manager, database, config, last_sync, now, last,
                 jira, last_llm_analysis, issue_override, trace, call>>

\* tracker.write().await (daemon.rs:48, 68, 187, 209, 231, 253)
LockTrackerWrite(p) ==
    /\ task[p].pc = "lock_tracker"
    /\ RwLock_can_write(locks.tracker)
    /\ locks' = [locks EXCEPT !.tracker.writer = Some(p)]
    /\ IF p \in Handlers
       THEN \E cmd \in Commands :
              /\ cmd = "start" => Len(database.sessions) < ConcMaxSessions
              /\ cmd = "pause" => Len(database.breaks) < ConcMaxBreaks
              /\ task' = [task EXCEPT ![p].cmd = cmd,
                                      ![p].pc = IF cmd = "start" THEN "db" ELSE "read"]
       ELSE task' = Goto(p, "read")
    /\ UNCHANGED <<state_manager, database, config, last_sync, now, last,
                 jira, last_llm_analysis, issue_override, trace, call>>

\* state_manager.read().await, the read under the guard, and the drop of the
\* guard, with no await in between (tracker.rs:134-138, 152-156, 170-174,
\* 196-208, daemon.rs:71-74)
ReadState(p) ==
    /\ task[p].pc = "read"
    /\ RwLock_can_read(locks.state_manager)
    /\ LET sm == state_manager
           cmd == task[p].cmd
           Fail(res) == /\ task' = Returned(p, res)
                        /\ locks' = DropGuards(p)
           Continue(pcv, id) == /\ task' = SetTask(p, pcv, id, Ok)
                                /\ locks' = locks
           \* sync keeps its read guard until the drop(state) before the fetch
           Hold(pcv, id) ==
               /\ task' = SetTask(p, pcv, id, Ok)
               /\ locks' = [locks EXCEPT !.state_manager.readers = @ \cup {p}]
       IN CASE cmd \in {"pause", "stop"} ->
                 IF IsNone(sm.current_session)
                 THEN Fail(NoActiveSession)
                 ELSE Continue("db", Unwrap(sm.current_session).id)
            [] cmd = "resume" ->
                 IF IsNone(sm.current_break)
                 THEN Fail(NoActiveBreak)
                 ELSE Continue("db", Unwrap(sm.current_break).id)
            [] cmd = SyncTask ->
                 IF ~TrackingState_is_tracking(sm.current_state)
                 THEN Fail(Ok)
                 ELSE IF IsNone(sm.current_session)
                      THEN Fail(NoActiveSession)
                      ELSE Hold("fetch", Unwrap(sm.current_session).id)
            [] cmd = LlmTask ->
                 IF IsNone(sm.current_session)
                 THEN Fail(Ok)
                 ELSE Continue("analyze", Unwrap(sm.current_session).id)
    /\ UNCHANGED <<state_manager, database, config, last_sync, now, last,
                 jira, last_llm_analysis, issue_override, trace, call>>

\* the store call of a command (tracker.rs:122, 140, 158, 176)
StoreCall(p) ==
    /\ task[p].pc = "db"
    /\ LET cmd == task[p].cmd
           id == task[p].id
       IN CASE cmd = "start" ->
                 LET c == Database_create_session(database, now)
                 IN database' = c.db /\ task' = SetTask(p, "transition", c.id, Ok)
            [] cmd = "pause" ->
                 LET c == Database_create_break(database, id, now)
                 IN database' = c.db /\ task' = SetTask(p, "transition", c.id, Ok)
            [] cmd = "resume" ->
                 /\ database' = Database_end_break(database, id, now)
                 /\ task' = Goto(p, "transition")
            [] cmd = "stop" ->
                 /\ database' = Database_end_session(database, id, now)
                 /\ task' = Goto(p, "transition")
    /\ UNCHANGED <<state_manager, config, last_sync, now, last, locks,
                 jira, last_llm_analysis, issue_override, trace, call>>

\* Transition with a stop that runs the analysis whatever the configuration
Transition_AnalyzeAlways(p) ==
    /\ task[p].pc = "transition"
    /\ RwLock_can_write(locks.state_manager)
    /\ LET cmd == task[p].cmd
           r == CASE cmd = "start" ->
                       StateManager_start_tracking(state_manager, task[p].id, now)
                  [] cmd = "pause" ->
                       StateManager_pause_tracking(state_manager, task[p].id, now)
                  [] cmd = "resume" ->
                       StateManager_resume_tracking(state_manager, now)
                  [] cmd = "stop" ->
                       StateManager_stop_tracking(state_manager, now)
       IN /\ state_manager' = r.sm
          /\ IF cmd = "stop" /\ r.res = Ok
             THEN task' = Goto(p, "analyze") /\ locks' = locks
             ELSE task' = Returned(p, r.res) /\ locks' = DropGuards(p)
    /\ UNCHANGED <<database, config, last_sync, now, last,
                 jira, last_llm_analysis, issue_override, trace, call>>

\* state_manager.write().await and the StateManager call under the guard
\* (tracker.rs:124-126, 142-144, 160-162, 178-180).  The command then returns,
\* except that a successful stop_tracking with analyze_on_stop drops the guard
\* and goes on to the analysis (tracker.rs:185-188).
Transition(p) ==
    /\ task[p].pc = "transition"
    /\ RwLock_can_write(locks.state_manager)
    /\ LET cmd == task[p].cmd
           r == CASE cmd = "start" ->
                       StateManager_start_tracking(state_manager, task[p].id, now)
                  [] cmd = "pause" ->
                       StateManager_pause_tracking(state_manager, task[p].id, now)
                  [] cmd = "resume" ->
                       StateManager_resume_tracking(state_manager, now)
                  [] cmd = "stop" ->
                       StateManager_stop_tracking(state_manager, now)
       IN /\ state_manager' = r.sm
          /\ IF cmd = "stop" /\ r.res = Ok /\ config.analyze_on_stop
             THEN task' = Goto(p, "analyze") /\ locks' = locks
             ELSE task' = Returned(p, r.res) /\ locks' = DropGuards(p)
    /\ UNCHANGED <<database, config, last_sync, now, last,
                 jira, last_llm_analysis, issue_override, trace, call>>

\* analyze_and_log_batch(session_id) and the return of its result
\* (tracker.rs:187-190, daemon.rs:76-81)
Analyze(p) ==
    /\ task[p].pc = "analyze"
    /\ \E env \in ExportEnvs(Self, Some([id |-> task[p].id])) :
          LET a == analyze_and_log_batch(Self, task[p].id, now, env)
          IN /\ database' = a.self.database
             /\ jira' = a.self.jira
             /\ last_llm_analysis' = a.self.last_llm_analysis
             /\ trace' = a.self.trace
             /\ task' = Returned(p, a.res)
    /\ locks' = DropGuards(p)
    /\ UNCHANGED <<state_manager, config, last_sync, now, last, issue_override, call>>

\* Fetch without the drop(state) of tracker.rs:208
Fetch_KeepsStateGuard(p) ==
    /\ task[p].pc = "fetch"
    /\ task' = Goto(p, "fetch_wait")
    /\ UNCHANGED <<state_manager, database, config, last_sync, now, last, locks,
                 jira, last_llm_analysis, issue_override, trace, call>>

\* drop(state), then screenpipe.get_recent_activities(last_sync) is sent
\* (tracker.rs:208-215)
Fetch(p) ==
    /\ task[p].pc = "fetch"
    /\ task' = Goto(p, "fetch_wait")
    /\ locks' = [locks EXCEPT !.state_manager.readers = @ \ {p}]
    /\ UNCHANGED <<state_manager, database, config, last_sync, now, last,
                 jira, last_llm_analysis, issue_override, trace, call>>

\* the fetch fails: `?` returns the error (tracker.rs:215, daemon.rs:49-51)
FetchFailed(p) ==
    /\ task[p].pc = "fetch_wait"
    /\ task' = Returned(p, "Failed to fetch activities from Screenpipe")
    /\ locks' = DropGuards(p)
    /\ UNCHANGED <<state_manager, database, config, last_sync, now, last,
                 jira, last_llm_analysis, issue_override, trace, call>>

\* the fetch returns a batch: consolidate, store, move the cursor, return
\* (tracker.rs:216-239)
FetchReturned(p) ==
    /\ task[p].pc = "fetch_wait"
    /\ \E activities \in Batches :
         \E consolidated \in consolidate_activities(activities) :
            \E fail_at \in 0..Len(consolidated) :
               LET r == sync_fetched(database, last_sync, task[p].id,
                                     consolidated, fail_at, now)
               IN /\ database' = r.db
                  /\ last_sync' = r.last_sync
                  /\ task' = Returned(p, r.res)
    /\ locks' = DropGuards(p)
    /\ UNCHANGED <<state_manager, config, now, last,
                 jira, last_llm_analysis, issue_override, trace, call>>

\* status_handler: tracker.read().await (daemon.rs:130)
StatusLockTracker(p) ==
    /\ task[p].pc = "st_lock_tracker"
    /\ RwLock_can_read(locks.tracker)
    /\ locks' = [locks EXCEPT !.tracker.readers = @ \cup {p}]
    /\ task' = Goto(p, "st_read")
    /\ UNCHANGED <<state_manager, database, config, last_sync, now, last,
                 jira, last_llm_analysis, issue_override, trace, call>>

\* status_handler: state_manager.read().await, read state and durations,
\* drop both guards, read issue_override, answer (daemon.rs:131-147)
StatusRead(p) ==
    /\ task[p].pc = "st_read"
    /\ RwLock_can_read(locks.state_manager)
    /\ locks' = DropGuards(p)
    /\ task' = [task EXCEPT ![p] = Idle]
    /\ UNCHANGED <<state_manager, database, config, last_sync, now, last,
                 jira, last_llm_analysis, issue_override, trace, call>>

ConcNext ==
    \/ \E p \in Handlers : Request(p)
    \/ StatusRequest
    \/ \E p \in {SyncTask, LlmTask} : Wake(p)
    \/ \E p \in Procs :
          \/ LockTrackerWrite(p)
          \/ ReadState(p)
          \/ StoreCall(p)
          \/ Transition(p)
          \/ Analyze(p)
          \/ Fetch(p)
          \/ FetchFailed(p)
          \/ FetchReturned(p)
          \/ StatusLockTracker(p)
          \/ StatusRead(p)

ConcSpec == Init /\ [][ConcNext]_vars

\* =================================================================
\* Properties
\* =================================================================
\* rows of the store with a NULL end_time
OpenSessions(db) ==
    {i \in DOMAIN db.sessions : IsNone(db.sessions[i].end_time)}
OpenBreaks(db, session_id) ==
    {i \in DOMAIN db.breaks : /\ db.breaks[i].session_id = session_id
                              /\ IsNone(db.breaks[i].end_time)}
\* the table `new` is the table `old` with exactly one row appended
OneRowAppended(old, new) ==
    Len(new) = Len(old) + 1 /\ SubSeq(new, 1, Len(old)) = old
CurrentSessionId(sm) == Unwrap(sm.current_session).id
\* an Option<Session> / Option<BreakPeriod> that is absent or already ended
AbsentOrEnded(opt) == IsNone(opt) \/ IsSome(Unwrap(opt).end_time)

\* C1: whatever control commands are issued, the store never holds two
\* sessions with a NULL end at the same time.
C1_AtMostOneOpenSession ==
    Cardinality(OpenSessions(database)) <= 1

\* C2: the store never holds two breaks with a NULL end for the same session,
\* and a break row is created only by a successful Tracking -> Paused
\* transition.
C2_AtMostOneOpenBreak ==
    /\ [](\A sid \in DOMAIN database.sessions :
            Cardinality(OpenBreaks(database, sid)) <= 1)
    /\ [][Len(database'.breaks) > Len(database.breaks)
            => /\ state_manager.current_state = Tracking
               /\ state_manager'.current_state = Paused
               /\ last'.result = Ok]_vars

\* C3: in every state reachable by StateManager transitions the state is
\* Tracking or Paused exactly when the current session exists and has no end,
\* and outside Paused the current break is absent or already ended.
C3_StateMatchesSession ==
    LET sm == state_manager
    IN /\ (sm.current_state \in {Tracking, Paused})
            <=> (IsSome(sm.current_session)
                   /\ Session_is_active(Unwrap(sm.current_session)))
       /\ sm.current_state # Paused => AbsentOrEnded(sm.current_break)

\* C3 witness: a session was stopped while paused, so an ended break and an
\* ended session are still held in Stopped.
C3_Witness ==
    /\ state_manager.current_state = Stopped
    /\ IsSome(state_manager.current_session)
    /\ IsSome(state_manager.current_break)
    /\ last.cmd = "stop" /\ last.result = Ok

C5_StopClosesSessionAndBreaks ==
    [][(stop_tracking_handler
          /\ state_manager.current_state \in {Tracking, Paused})
        => LET sid == CurrentSessionId(state_manager)
           IN /\ state_manager'.current_state = Stopped
              /\ AbsentOrEnded(state_manager'.current_break)
              /\ IsSome(Unwrap(state_manager'.current_session).end_time)
              /\ IsSome(database'.sessions[sid].end_time)
              /\ OpenBreaks(database', sid) = {}]_vars

\* C6: a StateManager transition invoked where it is not permitted fails with
\* the specified error and leaves state, session and break unchanged.
C6_InvalidTransitionFails ==
    [][LET st == state_manager.current_state
           Fails(err) == last'.result = err /\ state_manager' = state_manager
       IN /\ ((\E id \in 1..MaxId : SM_start(id)) /\ st = Tracking)
                => Fails(AlreadyTracking)
          /\ ((\E id \in 1..MaxId : SM_pause(id)) /\ st = Paused)
                => Fails(AlreadyPaused)
          /\ ((\E id \in 1..MaxId : SM_pause(id)) /\ st = Stopped)
                => Fails(NotTracking)
          /\ (SM_resume /\ st = Tracking) => Fails(AlreadyTracking)
          /\ (SM_resume /\ st = Stopped) => Fails(NotInSession)
          /\ (SM_stop /\ st = Stopped) => Fails(NotTracking)]_vars

\* C6 witness: resume was refused in Stopped after a completed session.
C6_Witness ==
    /\ last.cmd = "resume" /\ last.result = NotInSession
    /\ state_manager.current_state = Stopped
    /\ IsSome(state_manager.current_session)

\* C7: every invalid transition requested through the control surface is
\* answered non-2xx and changes neither the state machine nor the store.
C7_InvalidRequestChangesNothing ==
    [][LET st == state_manager.current_state
           Refused == /\ ~Is2xx(last'.status)
                      /\ state_manager' = state_manager
                      /\ database' = database
       IN /\ (start_tracking_handler /\ st = Tracking) => Refused
          /\ (pause_tracking_handler /\ st \in {Paused, Stopped}) => Refused
          /\ (resume_tracking_handler /\ st \in {Tracking, Stopped}) => Refused
          /\ (stop_tracking_handler /\ st = Stopped) => Refused]_vars

\* C8: start() in Paused closes the open break and resumes the same session:
\* state Tracking, same session id, break closed in memory and in the store,
\* no new session created.
C8_StartFromPausedResumes ==
    [][(start_tracking_handler /\ state_manager.current_state = Paused)
        => LET b == Unwrap(state_manager.current_break).id
           IN /\ last'.result = Ok
              /\ state_manager'.current_state = Tracking
              /\ CurrentSessionId(state_manager') = CurrentSessionId(state_manager)
              /\ AbsentOrEnded(state_manager'.current_break)
              /\ IsSome(database'.breaks[b].end_time)
              /\ database'.sessions = database.sessions]_vars

\* while Paused, the current break is the open row that pause created
PausedHoldsOpenBreak ==
    LET sm == state_manager
    IN /\ IsSome(sm.current_break) /\ IsSome(sm.current_session)
       /\ Unwrap(sm.current_break).id \in DOMAIN database.breaks
       /\ Unwrap(sm.current_break).session_id = CurrentSessionId(sm)
       /\ database.breaks[Unwrap(sm.current_break).id].session_id
             = CurrentSessionId(sm)
       /\ IsNone(database.breaks[Unwrap(sm.current_break).id].end_time)
       /\ BreakPeriod_is_active(Unwrap(sm.current_break))
\* a pause step taken in Tracking
PauseOpensOneBreak ==
    (pause_tracking_handler /\ state_manager.current_state = Tracking)
      => /\ last'.result = Ok
         /\ state_manager'.current_state = Paused
         /\ state_manager'.current_session = state_manager.current_session
         /\ OneRowAppended(database.breaks, database'.breaks)
         /\ Unwrap(state_manager'.current_break).id = Len(database'.breaks)
         /\ database'.sessions = database.sessions
\* a resume step taken in Paused
ResumeClosesThatBreak ==
    (resume_tracking_handler /\ state_manager.current_state = Paused)
      => LET b == Unwrap(state_manager.current_break).id
         IN /\ last'.result = Ok
            /\ state_manager'.current_state = Tracking
            /\ state_manager'.current_session = state_manager.current_session
            /\ AbsentOrEnded(state_manager'.current_break)
            /\ IsSome(database'.breaks[b].end_time)
            /\ \A i \in DOMAIN database.breaks \ {b} :
                  database'.breaks[i] = database.breaks[i]
            /\ Len(database'.breaks) = Len(database.breaks)
            /\ database'.sessions = database.sessions

\* C9: pause() in Tracking opens exactly one break attached to the current
\* session, and a following resume() closes exactly that break: the state is
\* Tracking again with the same session, and the break has an end in memory
\* and in the store.
C9_PauseResumeRoundTrip ==
    /\ [](state_manager.current_state = Paused => PausedHoldsOpenBreak)
    /\ [][PauseOpensOneBreak /\ ResumeClosesThatBreak]_vars

\* C9 witness: a pause followed by a resume: the session is tracked again and
\* its break row is closed.
C9_Witness ==
    /\ last.cmd = "resume" /\ last.result = Ok
    /\ state_manager.current_state = Tracking
    /\ Len(database.breaks) = 1
    /\ database.breaks[1].session_id = CurrentSessionId(state_manager)
    /\ IsSome(database.breaks[1].end_time)
    /\ IsNone(database.sessions[CurrentSessionId(state_manager)].end_time)

\* a control command is between taking the tracker lock and returning
InCommand(p) ==
    p \in Handlers /\ task[p].pc \in {"read", "db", "transition", "analyze"}
\* a task is neither idle nor waiting for the tracker lock: it reads or
\* writes the state machine or the store, or awaits a collaborator
Active(q) == task[q].pc \notin {"idle", "lock_tracker", "st_lock_tracker"}
\* the id a task read earlier and is about to use is still the current one
UsesCurrentId(p) ==
    LET sm == state_manager
        t == task[p]
        IsCurrentSession == IsSome(sm.current_session) /\ t.id = CurrentSessionId(sm)
    IN /\ (t.pc = "db" /\ t.cmd \in {"pause", "stop"}) => IsCurrentSession
       /\ (t.pc = "db" /\ t.cmd = "resume")
             => IsSome(sm.current_break) /\ t.id = Unwrap(sm.current_break).id
       /\ t.pc \in {"fetch", "fetch_wait"}
             => IsCurrentSession /\ sm.current_state = Tracking
       /\ t.pc = "analyze" => IsCurrentSession

\* C10: transitions are atomic for concurrent readers: while a control
\* command is between its first and last step no other handler, status
\* request or loop reads the state machine or the store, and every task that
\* acts on a session or break id it read acts on the current one.
C10_TransitionsAtomicForReaders ==
    /\ \A p \in Handlers : \A q \in Procs \ {p} : InCommand(p) => ~Active(q)
    /\ \A p \in Procs : UsesCurrentId(p)

\* C10 witness: a pause has written its break row but not yet changed the
\* state, while a status request and both loops wait for the tracker lock.
C10_Witness ==
    /\ \E p \in Handlers : task[p].pc = "transition" /\ task[p].cmd = "pause"
    /\ state_manager.current_state = Tracking
    /\ Len(database.breaks) = 1
    /\ task[StatusTask].pc = "st_lock_tracker"
    /\ task[SyncTask].pc = "lock_tracker"
    /\ task[LlmTask].pc = "lock_tracker"

\* rows of the activities table that a step appended
NewActivities == 
    {i \in DOMAIN database'.activities : i > Len(database.activities)}
\* a consolidation tick that finds the state Paused or Stopped ends there
SyncSkipsWhenNotTracking ==
    (/\ task[SyncTask].pc = "read" /\ task'[SyncTask].pc # "read"
     /\ state_manager.current_state # Tracking)
      => /\ task'[SyncTask].pc = "idle"
         /\ database' = database
         /\ last_sync' = last_sync
\* a step that stores activities stores them for the session that is current,
\* tracked, and open in the store
StoresForCurrentOpenSession ==
    \A i \in NewActivities :
       /\ state_manager.current_state = Tracking
       /\ IsSome(state_manager.current_session)
       /\ database'.activities[i].session_id = CurrentSessionId(state_manager)
       /\ Session_is_active(Unwrap(state_manager.current_session))
       /\ IsNone(database.sessions[CurrentSessionId(state_manager)].end_time)
       /\ state_manager' = state_manager

\* C11: the consolidation tick fetches only while the state is Tracking, in
\* Paused or Stopped it is a no-op, and every activity it stores carries the
\* id of the session that is current and open when it is stored, under every
\* interleaving with the control commands.
C11_SyncOnlyWhileTracking ==
    /\ [](task[SyncTask].pc \in {"fetch", "fetch_wait"}
            => state_manager.current_state = Tracking)
    /\ [][SyncSkipsWhenNotTracking /\ StoresForCurrentOpenSession]_vars

\* C11 witness: an activity was stored for the second session, after the
\* first one was stopped, while a control request waits for the tracker lock.
C11_Witness ==
    /\ Len(database.activities) = 1
    /\ database.activities[1].session_id = 2
    /\ IsSome(database.sessions[1].end_time)
    /\ state_manager.current_state = Tracking
    /\ \E p \in Handlers : task[p].pc = "lock_tracker"


\* ------------------------------ consolidate_activities on its own
\* WorkTracker::consolidate_activities applied to one fetched batch.  A batch
\* is any sequence of at most MaxBatch observations; screenpipe reports
\* application names and window titles as free text.
MaxBatch == 3
Observations ==
    {Activity(ts, w[1], w[2]) :
        ts \in 0..1,
        w \in {<<AppX, TitleA>>,
               <<<<"a", ":", "b">>, <<"c">>>>,
               <<<<"a">>, <<"b", ":", "c">>>>}}

ConsolidateInit ==
    /\ Constructed
    /\ config \in Configs
    /\ call \in {[fn |-> "consolidate_activities", activities |-> b,
                  returned |-> FALSE, result |-> <<>>] :
                    b \in UNION {[1..n -> Observations] : n \in 0..MaxBatch}}

Call_consolidate_activities ==
    /\ call.fn = "consolidate_activities" /\ ~call.returned
    /\ \E consolidated \in consolidate_activities(call.activities) :
          call' = [call EXCEPT !.returned = TRUE, !.result = consolidated]
    /\ UNCHANGED <<state_manager, database, config, last_sync, now, last, task,
                 locks, jira, last_llm_analysis, issue_override, trace>>

ConsolidateSpec ==
    ConsolidateInit /\ [][Call_consolidate_activities]_vars

\* C12: consolidating a batch yields exactly one unit per distinct
\* (app_name, window_title) pair, with the summed duration of the pair's
\* observations and the timestamp of the first of them; observations merge
\* if and only if both fields are equal; the total duration is preserved.
C12_OneUnitPerPair ==
    (call.fn = "consolidate_activities" /\ call.returned) =>
       LET input == call.activities
           output == call.result
           Pair(a) == <<a.app_name, a.window_title>>
           Of(pr) == {i \in DOMAIN input : Pair(input[i]) = pr}
           Sum[S \in SUBSET DOMAIN input] ==
               IF S = {} THEN 0
               ELSE LET i == CHOOSE i \in S : TRUE
                    IN input[i].duration_secs + Sum[S \ {i}]
           Total[i \in 0..Len(output)] ==
               IF i = 0 THEN 0 ELSE output[i].duration_secs + Total[i - 1]
           First(pr) == CHOOSE i \in Of(pr) : \A j \in Of(pr) : i <= j
       IN /\ Len(output) = Cardinality({Pair(input[i]) : i \in DOMAIN input})
          /\ \A i \in DOMAIN input :
                \E k \in DOMAIN output :
                   /\ Pair(output[k]) = Pair(input[i])
                   /\ output[k].duration_secs = Sum[Of(Pair(input[i]))]
                   /\ output[k].timestamp = input[First(Pair(input[i]))].timestamp
          /\ Total[Len(output)] = Sum[DOMAIN input]

\* C13: after every consolidation tick whose fetch succeeded the cursor is
\* set to now, whether or not the merged rows were stored.
C13_CursorAdvancesAfterFetch ==
    [][FetchReturned(SyncTask) => last_sync' = now]_vars

\* ------------------------------------------------ Database on its own
\* The functions of Database called directly, as database.rs
\* test_activity_storage does: create a session, store activities of any
\* duration, read them back, mark them logged.  `call` holds the last call.
DBMaxSessions == 1
DBMaxActivities == 2

DB_create_session ==
    /\ Len(database.sessions) < DBMaxSessions
    /\ database' = Database_create_session(database, now).db
    /\ call' = [fn |-> "create_session", res |-> Ok]
    /\ UNCHANGED <<state_manager, config, last_sync, now, last, task, locks,
                 jira, last_llm_analysis, issue_override, trace>>

DB_store_activity ==
    /\ Len(database.activities) < DBMaxActivities
    /\ \E session_id \in DOMAIN database.sessions, timestamp \in 0..1,
          duration_secs \in {599, 600} :
          database' = Database_store_activity(database, session_id,
                         [Activity(timestamp, AppX, TitleA)
                            EXCEPT !.duration_secs = duration_secs])
    /\ call' = [fn |-> "store_activity", res |-> Ok]
    /\ UNCHANGED <<state_manager, config, last_sync, now, last, task, locks,
                 jira, last_llm_analysis, issue_override, trace>>

DB_get_session_activities ==
    /\ \E session_id \in DOMAIN database.sessions,
          tier \in {None, Some(Micro), Some(Billable)} :
          call' = [fn |-> "get_session_activities", res |-> Ok,
                   session_id |-> session_id, tier |-> tier,
                   activities |-> Database_get_session_activities(
                                      database, session_id, tier)]
    /\ UNCHANGED <<state_manager, database, config, last_sync, now, last, task,
                 locks, jira, last_llm_analysis, issue_override, trace>>

\* activity_ids is any ascending list of at most two ids, known to the store
\* or not; `again` records that the call before it was the same call
DB_mark_activities_logged ==
    /\ \E activity_ids \in {l \in UNION {[1..n -> 1..(DBMaxActivities + 1)] : n \in 0..2} :
                                \A i, j \in DOMAIN l : i < j => l[i] < l[j]} :
             /\ database' = Database_mark_activities_logged(database, activity_ids)
             /\ call' = [fn |-> "mark_activities_logged", res |-> Ok,
                         activity_ids |-> activity_ids,
                         again |-> /\ call.fn = "mark_activities_logged"
                                   /\ call.activity_ids = activity_ids]
    /\ UNCHANGED <<state_manager, config, last_sync, now, last, task, locks,
                 jira, last_llm_analysis, issue_override, trace>>

DBNext ==
    \/ DB_create_session
    \/ DB_store_activity
    \/ DB_get_session_activities
    \/ DB_mark_activities_logged

\* the configuration plays no part in Database
DBInit == Init /\ config.analyze_on_stop

DBSpec == DBInit /\ [][DBNext]_vars

\* C14: the tier of a unit is Micro if its duration is below 600 seconds and
\* Billable otherwise (599 is Micro, 600 is Billable), both in the stored row
\* and in the unit read back from the store, and a read of one tier returns
\* the units of that tier.
C14_TierFromDuration ==
    LET TierOf(duration_secs) == IF duration_secs < 600 THEN Micro ELSE Billable
    IN /\ \A i \in DOMAIN database.activities :
             database.activities[i].tier =
                IF TierOf(database.activities[i].duration_secs) = Micro
                THEN "micro" ELSE "billable"
       /\ call.fn = "get_session_activities" =>
             /\ \A k \in DOMAIN call.activities :
                   /\ call.activities[k].tier = TierOf(call.activities[k].duration_secs)
                   /\ IsSome(call.tier) => call.activities[k].tier = Unwrap(call.tier)
             /\ {call.activities[k].id : k \in DOMAIN call.activities} =
                   {i \in DOMAIN database.activities :
                       /\ database.activities[i].session_id = call.session_id
                       /\ IsNone(call.tier) \/
                            TierOf(database.activities[i].duration_secs) = Unwrap(call.tier)}

C14_Witness ==
    /\ call.fn = "get_session_activities" /\ IsNone(call.tier)
    /\ \E j, k \in DOMAIN call.activities :
          /\ call.activities[j].duration_secs = 599 /\ call.activities[j].tier = Micro
          /\ call.activities[k].duration_secs = 600 /\ call.activities[k].tier = Billable

ExportMaxSessions == 1
ExportMaxActivities == 2

\* Config::load : Config::default with llm.enabled as in the file
ExportConfigs ==
    {[analyze_on_stop |-> TRUE, jira_enabled |-> TRUE, llm_enabled |-> l,
      confidence_threshold |-> ConfidenceThreshold,
      company_name |-> CompanyName] : l \in BOOLEAN}

\* the batches screenpipe may return to one fetch: nothing, one observation,
\* or as many observations of one window as make a billable unit
ExportBatches ==
    {[i \in 1..n |-> Activity(now, AppX, TitleA)] :
        n \in {0, 1, TierThresholdSecs \div FixedUnitDuration}}

\* str::to_uppercase and str::trim on the characters that occur
to_uppercase(text) ==
    LET lower == <<"a", "b", "c", "d", "e", "f", "g", "h", "i", "j", "k", "l", "m",
                   "n", "o", "p", "q", "r", "s", "t", "u", "v", "w", "x", "y", "z">>
        upper == <<"A", "B", "C", "D", "E", "F", "G", "H", "I", "J", "K", "L", "M",
                   "N", "O", "P", "Q", "R", "S", "T", "U", "V", "W", "X", "Y", "Z">>
    IN [i \in DOMAIN text |->
           IF \E k \in DOMAIN lower : lower[k] = text[i]
           THEN upper[CHOOSE k \in DOMAIN lower : lower[k] = text[i]]
           ELSE text[i]]
RECURSIVE trim(_)
trim(text) ==
    IF text = <<>> THEN <<>>
    ELSE IF Head(text) = " " THEN trim(Tail(text))
    ELSE IF text[Len(text)] = " " THEN trim(SubSeq(text, 1, Len(text) - 1))
    ELSE text

\* issue_override_handler : the payload's issue_key, trimmed and upper-cased,
\* or None if nothing is left, replaces the override; the answer is that of
\* status_handler
issue_override_handler ==
    /\ \E issue_key \in {None, Some(<<" ">>), Some(<<" ", "b", "-", "2">>)} :
          LET trimmed == to_uppercase(trim(Unwrap(issue_key)))
              cleaned == IF IsNone(issue_key) \/ trimmed = <<>>
                         THEN None ELSE Some(trimmed)
          IN issue_override' = cleaned
    /\ last' = [cmd |-> "issue", result |-> Ok, status |-> HttpOk]
    /\ UNCHANGED <<state_manager, database, config, last_sync, now, task, locks,
                 jira, last_llm_analysis, trace, call>>

\* one iteration of the sync loop that reaches the fetch and gets an answer:
\* WorkTracker::sync while Tracking
sync_loop ==
    /\ TrackingState_is_tracking(state_manager.current_state)
    /\ IsSome(state_manager.current_session)
    /\ Len(database.activities) < ExportMaxActivities
    /\ \E activities \in ExportBatches :
         \E consolidated \in consolidate_activities(activities) :
            \E fail_at \in 0..Len(consolidated) :
               LET r == sync_fetched(database, last_sync,
                                     CurrentSessionId(state_manager),
                                     consolidated, fail_at, now)
               IN /\ database' = r.db
                  /\ last_sync' = r.last_sync
    /\ UNCHANGED <<state_manager, config, now, last, task, locks,
                 jira, last_llm_analysis, issue_override, trace, call>>

\* one iteration of the LLM analysis loop with a current session
llm_loop ==
    /\ IsSome(state_manager.current_session)
    /\ \E env \in ExportEnvs(Self, state_manager.current_session) :
          LET a == analyze_and_log_batch(Self, CurrentSessionId(state_manager),
                                         now, env)
          IN /\ database' = a.self.database
             /\ jira' = a.self.jira
             /\ last_llm_analysis' = a.self.last_llm_analysis
             /\ trace' = a.self.trace
    /\ UNCHANGED <<state_manager, config, last_sync, now, last, task, locks,
                 issue_override, call>>

ExportInit == Constructed /\ config \in ExportConfigs /\ call = NoCall

ExportNext ==
    \/ Len(database.sessions) < ExportMaxSessions /\ start_tracking_handler
    \/ stop_tracking_handler
    \/ issue_override_handler
    \/ sync_loop
    \/ llm_loop

ExportSpec == ExportInit /\ [][ExportNext]_vars

\* one export run: an iteration of the LLM analysis loop with a current
\* session, or a POST /stop that ends the session with analyze_on_stop set
ExportRun ==
    \/ llm_loop
    \/ /\ stop_tracking_handler
       /\ state_manager.current_state # Stopped
       /\ config.analyze_on_stop

\* C15: whatever the daemon does, a stored unit stays stored, its exported
\* flag once true stays true, and none of its other fields ever changes.
C15_ExportedMonotonic ==
    [][\A i \in DOMAIN database.activities :
          /\ i \in DOMAIN database'.activities
          /\ [database'.activities[i] EXCEPT !.logged_to_jira = FALSE] =
                [database.activities[i] EXCEPT !.logged_to_jira = FALSE]
          /\ database.activities[i].logged_to_jira =>
                database'.activities[i].logged_to_jira]_vars

C15_Witness ==
    /\ Len(database.activities) = 2
    /\ database.activities[1].logged_to_jira
    /\ ~database.activities[2].logged_to_jira
    /\ Calls(trace, "mark_activities_logged") = 1
    /\ state_manager.current_state = Stopped
    /\ IsSome(issue_override)

\* C17: an export run, timer-triggered or stop-triggered, never includes a
\* unit already marked exported in the batch it sends to the classifier and
\* never passes one to the work-log operation, on either path.
C17_ExportSkipsExported ==
    [][ExportRun =>
          LET exported == {i \in DOMAIN database.activities :
                              database.activities[i].logged_to_jira}
              Set(ids) == {ids[k] : k \in DOMAIN ids}
          IN \A e \in DOMAIN trace' :
                /\ trace'[e].op = "analyze_batch" =>
                      (Set(trace'[e].billable) \cup Set(trace'[e].micro))
                         \cap exported = {}
                /\ trace'[e].op = "log_work" =>
                      Set(trace'[e].ids) \cap exported = {}]_vars

\* `trace` is replaced by every export run and by nothing else, so after any
\* step trace' holds the calls of the latest run, and after an export run
\* those of that run.
\* the issue matches of the analysis that the latest run stored, none if it
\* stored no analysis
StoredMatches ==
    IF Calls(trace', "store_analysis") = 0
    THEN <<>>
    ELSE database'.analysis_results[Len(database'.analysis_results)].llm_response.issues
\* the log_work calls of the latest run, in order
LogWorkCalls == SelectSeq(trace', LAMBDA e : e.op = "log_work")
\* the units whose row the step changed
ChangedUnits ==
    {i \in DOMAIN database.activities :
        database'.activities[i] # database.activities[i]}

C19_OneLogWorkPerAcceptedMatch ==
    [][(config.llm_enabled /\ config.jira_enabled) =>
          LET accepted ==
                  SelectSeq(StoredMatches,
                            LAMBDA m : m.confidence >= config.confidence_threshold)
              Set(ids) == {ids[k] : k \in DOMAIN ids}
              MarkedIds ==
                  UNION {Set(LogWorkCalls[c].ids) :
                           c \in {c \in DOMAIN LogWorkCalls : LogWorkCalls[c].res = Ok}}
          IN /\ Len(LogWorkCalls) = Len(accepted)
             /\ \A c \in DOMAIN LogWorkCalls :
                   /\ LogWorkCalls[c].issue_key = accepted[c].key
                   /\ LogWorkCalls[c].time_spent_seconds = accepted[c].total_time_secs
                   /\ LogWorkCalls[c].ids = accepted[c].activities_included
             /\ \A e \in DOMAIN trace' :
                   /\ (trace'[e].op = "log_work" /\ trace'[e].res = Ok) =>
                         /\ e + 1 \in DOMAIN trace'
                         /\ trace'[e + 1] = [op |-> "mark_activities_logged",
                                             ids |-> trace'[e].ids]
                   /\ trace'[e].op = "mark_activities_logged" =>
                         /\ e - 1 \in DOMAIN trace'
                         /\ trace'[e - 1].op = "log_work"
                         /\ trace'[e - 1].res = Ok
             /\ \A i \in DOMAIN database.activities :
                   database'.activities[i] =
                      IF i \in MarkedIds
                      THEN [database.activities[i] EXCEPT !.logged_to_jira = TRUE]
                      ELSE database.activities[i]]_vars

C19_Witness ==
    /\ config.llm_enabled
    /\ Calls(trace, "log_work") = 2
    /\ Calls(trace, "mark_activities_logged") = 1
    /\ \E e \in DOMAIN trace :
          /\ trace[e].op = "log_work" /\ trace[e].res = Ok
          /\ trace[e].ids = <<1, 2>> /\ trace[e].time_spent_seconds = 90
    /\ Len(database.activities) = 2
    /\ \A i \in 1..2 : database.activities[i].logged_to_jira
                        /\ database.activities[i].duration_secs # 90

\* C20: on the fallback path with no manual override, a unit whose window
\* title or app name contains an issue key that is_assigned_to_me answers
\* false for gets no logWork call and stays unexported.
C20_UnassignedKeyNotLogged ==
    [][(~config.llm_enabled /\ config.jira_enabled /\ IsNone(issue_override)) =>
          \A e \in DOMAIN trace' :
             LET id == trace'[e].id
                 row == database.activities[id]
                 text == row.window_title \o <<" ">> \o row.app_name
                 key == trace'[e].issue_key
                 Contains ==
                     \E at \in 1..Len(text) :
                        /\ at + Len(key) - 1 <= Len(text)
                        /\ SubSeq(text, at, at + Len(key) - 1) = key
                 assigned_issues == Unwrap(jira'.assigned_issues_cache).issues
                 AnswersFalse ==
                     /\ trace'[e].res = Ok
                     /\ \A k \in DOMAIN assigned_issues : assigned_issues[k] # key
             IN (trace'[e].op = "is_assigned_to_me" /\ Contains /\ AnswersFalse) =>
                   /\ \A c \in DOMAIN LogWorkCalls : LogWorkCalls[c].ids # <<id>>
                   /\ ~database'.activities[id].logged_to_jira]_vars

C20_Witness ==
    /\ ~config.llm_enabled /\ IsNone(issue_override)
    /\ Len(database.activities) = 1
    /\ database.activities[1].window_title = TitleA
    /\ database.activities[1].tier = "billable"
    /\ ~database.activities[1].logged_to_jira
    /\ IsSome(jira.assigned_issues_cache)
    /\ Unwrap(jira.assigned_issues_cache).issues = <<>>
    /\ trace = <<[op |-> "is_assigned_to_me", issue_key |-> KeyA, res |-> Ok,
                  assigned |-> FALSE, remote |-> TRUE, id |-> 1]>>

\* C21: a unit is marked exported on success only: on both paths every unit
\* that becomes exported is listed by a logWork call of the run that returned
\* success and that the mark follows; a failed logWork marks nothing.
C21_MarkedOnSuccessOnly ==
    [][/\ \A i \in DOMAIN database.activities :
             (/\ ~database.activities[i].logged_to_jira
              /\ database'.activities[i].logged_to_jira) =>
                \E e \in DOMAIN trace' :
                   /\ trace'[e].op = "log_work" /\ trace'[e].res = Ok
                   /\ \E k \in DOMAIN trace'[e].ids : trace'[e].ids[k] = i
                   /\ \E w \in DOMAIN jira'.worklogs :
                         /\ jira'.worklogs[w].issue_key = trace'[e].issue_key
                         /\ jira'.worklogs[w].time_spent_seconds =
                               trace'[e].time_spent_seconds
       /\ \A e \in DOMAIN trace' :
             trace'[e].op = "mark_activities_logged" =>
                /\ e > 1
                /\ trace'[e - 1].op = "log_work"
                /\ trace'[e - 1].res = Ok
                /\ trace'[e - 1].ids = trace'[e].ids
       /\ \A i \in DOMAIN database'.activities \ DOMAIN database.activities :
             ~database'.activities[i].logged_to_jira]_vars

C21_Witness ==
    /\ ~config.llm_enabled
    /\ Len(database.activities) = 2
    /\ database.activities[1].logged_to_jira
    /\ ~database.activities[2].logged_to_jira
    /\ LET calls == SelectSeq(trace, LAMBDA e : e.op = "log_work")
       IN /\ Len(calls) = 2
          /\ calls[1].res = Ok /\ calls[1].ids = <<1>>
          /\ calls[2].res # Ok /\ calls[2].ids = <<2>>

\* A step is an export run that changed something exactly if it is a POST
\* /stop that ends the session with analyze_on_stop set, or it leaves the
\* state machine, the last response, the cursor, the override and the number
\* of stored units as they are: of all handlers and loops only an iteration
\* of the LLM analysis loop does that.
ExportStep ==
    \/ /\ state_manager.current_state # Stopped
       /\ state_manager'.current_state = Stopped
       /\ config.analyze_on_stop
    \/ /\ IsSome(state_manager.current_session)
       /\ UNCHANGED <<state_manager, last, last_sync, issue_override>>
       /\ Len(database'.activities) = Len(database.activities)
       /\ database'.sessions = database.sessions

\* C22: within one export run a failed collaborator call for one match or
\* unit does not end the run and is not retried: on the AI path every
\* accepted match gets exactly one logWork call, in order, whatever the
\* earlier calls returned; on the fallback path every billable unit not yet
\* exported is asked about exactly once, in order, whatever the earlier
\* calls returned, and logged at most once.
C22_FailureDoesNotStopRun ==
    [][ExportStep =>
          LET session_id == CurrentSessionId(state_manager)
              accepted ==
                  SelectSeq(StoredMatches,
                            LAMBDA m : m.confidence >= config.confidence_threshold)
              todo == SelectSeq(database.activities,
                                LAMBDA a : /\ a.session_id = session_id
                                           /\ a.duration_secs >= 600
                                           /\ ~a.logged_to_jira)
              asked == SelectSeq(trace', LAMBDA e : e.op = "is_assigned_to_me")
              LoggedFor(id) == {c \in DOMAIN LogWorkCalls :
                                   LogWorkCalls[c].ids = <<id>>}
          IN IF config.llm_enabled /\ config.jira_enabled
             THEN /\ Len(LogWorkCalls) = Len(accepted)
                  /\ \A c \in DOMAIN LogWorkCalls :
                        /\ LogWorkCalls[c].issue_key = accepted[c].key
                        /\ LogWorkCalls[c].ids = accepted[c].activities_included
             ELSE /\ [k \in DOMAIN asked |-> asked[k].id] =
                        [k \in DOMAIN todo |-> todo[k].id]
                  /\ \A k \in DOMAIN asked :
                        Cardinality(LoggedFor(asked[k].id)) =
                           IF asked[k].res = Ok /\ asked[k].assigned THEN 1 ELSE 0
                  /\ Len(LogWorkCalls) =
                        Cardinality({k \in DOMAIN asked :
                                        asked[k].res = Ok /\ asked[k].assigned})]_vars

C22_Witness ==
    /\ ~config.llm_enabled
    /\ Len(database.activities) = 2
    /\ \A i \in 1..2 : ~database.activities[i].logged_to_jira
    /\ LET calls == SelectSeq(trace, LAMBDA e : e.op = "log_work")
       IN /\ Len(calls) = 2
          /\ calls[1].res # Ok /\ calls[1].ids = <<1>>
          /\ calls[2].ids = <<2>>

\* ------------------------------------------- the daemon running on
\* The tasks of the daemon step by step as above, with one control request
\* in flight at a time, and both loops iterating for ever: once
\* MaxActivities units are stored, screenpipe has nothing more to report.
\* The LLM analyzer may be configured; GET /status is the status_handler
\* call that ends every successful command.
LiveMaxSessions == 1
LoopTasks == {SyncTask, LlmTask}
LiveTasks == {"h1"} \cup LoopTasks

\* the sleep of a background loop ends (daemon.rs:54, daemon.rs:66)
LoopWake(p) ==
    /\ p \in LoopTasks /\ task[p].pc = "idle"
    /\ task' = [task EXCEPT ![p] = [Idle EXCEPT !.pc = "lock_tracker", !.cmd = p]]
    /\ UNCHANGED <<state_manager, database, config, last_sync, now, last, locks,
                 jira, last_llm_analysis, issue_override, trace, call>>

\* the fetch returns a batch: consolidate, store, move the cursor, return
\* (tracker.rs:216-239)
LoopFetchReturned(p) ==
    /\ task[p].pc = "fetch_wait"
    /\ \E activities \in IF Len(database.activities) < MaxActivities
                         THEN Batches ELSE {<<>>} :
         \E consolidated \in consolidate_activities(activities) :
            \E fail_at \in 0..Len(consolidated) :
               LET r == sync_fetched(database, last_sync, task[p].id,
                                     consolidated, fail_at, now)
               IN /\ database' = r.db
                  /\ last_sync' = r.last_sync
                  /\ task' = Returned(p, r.res)
    /\ locks' = DropGuards(p)
    /\ UNCHANGED <<state_manager, config, now, last,
                 jira, last_llm_analysis, issue_override, trace, call>>

\* tracker.write().await of a loop, or of the handler of a POST /start or
\* /stop (daemon.rs:48, 68, 187, 253)
LiveLockTrackerWrite(p) ==
    /\ task[p].pc = "lock_tracker"
    /\ RwLock_can_write(locks.tracker)
    /\ locks' = [locks EXCEPT !.tracker.writer = Some(p)]
    /\ IF p \in Handlers
       THEN \E cmd \in {"start", "stop"} :
              /\ cmd = "start" => Len(database.sessions) < LiveMaxSessions
              /\ task' = [task EXCEPT ![p].cmd = cmd,
                                      ![p].pc = IF cmd = "start" THEN "db" ELSE "read"]
       ELSE task' = Goto(p, "read")
    /\ UNCHANGED <<state_manager, database, config, last_sync, now, last,
                 jira, last_llm_analysis, issue_override, trace, call>>

\* a step of a task that waits for nothing but the scheduler, its own timer
\* or the LLM client, whose requests time out (llm.rs:127)
TaskStep(p) ==
    \/ LoopWake(p)
    \/ ReadState(p)
    \/ StoreCall(p)
    \/ Transition(p)
    \/ Fetch(p)
    \/ Analyze(p)
    \/ StatusRead(p)
\* tracker.write().await or tracker.read().await returns
Acquire(p) == LiveLockTrackerWrite(p) \/ StatusLockTracker(p)
\* the answer of screenpipe to a fetch
FetchAnswer(p) == FetchFailed(p) \/ LoopFetchReturned(p)

LiveNext ==
    \/ Request("h1")
    \/ \E p \in LiveTasks :
          \/ Acquire(p)
          \/ TaskStep(p)
          \/ FetchAnswer(p)

LiveInit == Constructed /\ config \in Configs \cup ExportConfigs /\ call = NoCall

\* tokio runs every task that can run and fires its timers, and its RwLock
\* serves waiters in the order they arrived, so a task waiting for
\* tracker.write() or tracker.read() gets it once the holders before it are
\* gone
Scheduling ==
    \A p \in LiveTasks : WF_vars(TaskStep(p)) /\ SF_vars(Acquire(p))

\* every call to a collaborator returns, with an answer or with an error
LiveSpec ==
    /\ LiveInit /\ [][LiveNext]_vars
    /\ Scheduling
    /\ WF_vars(FetchAnswer(SyncTask))

\* screenpipe need not answer: ScreenpipeClient::new builds its HTTP client
\* with reqwest::Client::new(), which sets no timeout (screenpipe.rs:44-49)
StuckSpec == LiveInit /\ [][LiveNext]_vars /\ Scheduling

C24_ControlNeverBlocks ==
    (task["h1"].pc \in {"lock_tracker", "st_lock_tracker"})
       ~> (task["h1"].pc = "idle")

StoreUsers ==
    {p \in Procs : task[p].pc \in {"read", "db", "transition", "fetch",
                                    "fetch_wait", "analyze"}}

\* C26: the store has one logical writer at a time: at most one of the
\* commands, the sync iteration and the export run is between its first and
\* its last store operation, and that one holds the write guard of the
\* tracker, which owns the store.
C26_OneStoreWriter ==
    /\ Cardinality(StoreUsers) <= 1
    /\ \A p \in StoreUsers : locks.tracker.writer = Some(p)

\* a command is at its store call while the other handler and both loops
\* wait for the tracker
C26_Witness ==
    /\ task["h1"].pc = "db"
    /\ task["h2"].pc = "lock_tracker"
    /\ task[SyncTask].pc = "lock_tracker"
    /\ task[LlmTask].pc = "lock_tracker"

\* the fallback path pattern-scans a unit: the scan finds the key in it
Scanned(i) ==
    JiraClient_find_issue_from_activity(
       [window_title |-> database.activities[i].window_title,
        app_name |-> database.activities[i].app_name])

\* C27: on the fallback path an override that is set when the run starts is
\* the issue of every unit of the run: every assignment check and every
\* log_work call of the run names the override key, whatever key the unit's
\* window title or application name holds; only with no override set is the
\* issue of a unit the one the pattern scan finds in it.
C27_OverrideTakesPrecedence ==
    [][(ExportStep /\ ~config.llm_enabled) =>
          \A e \in DOMAIN trace' :
             /\ trace'[e].op = "log_work" =>
                   IF IsSome(issue_override)
                   THEN trace'[e].issue_key = Unwrap(issue_override)
                   ELSE \A k \in DOMAIN trace'[e].ids :
                           Some(trace'[e].issue_key) = Scanned(trace'[e].ids[k])
             /\ trace'[e].op = "is_assigned_to_me" =>
                   IF IsSome(issue_override)
                   THEN trace'[e].issue_key = Unwrap(issue_override)
                   ELSE Some(trace'[e].issue_key) = Scanned(trace'[e].id)]_vars

\* a fallback run logged unit 1, whose title holds A-1, to the override B-2
C27_Witness ==
    /\ ~config.llm_enabled
    /\ issue_override = Some(KeyB)
    /\ Len(database.activities) >= 1
    /\ Scanned(1) = Some(KeyA)
    /\ database.activities[1].logged_to_jira
    /\ \E e \in DOMAIN trace :
          /\ trace[e].op = "log_work" /\ trace[e].res = Ok
          /\ trace[e].issue_key = KeyB /\ trace[e].ids = <<1>>
    /\ \E w \in DOMAIN jira.worklogs : jira.worklogs[w].issue_key = KeyB

C29_ExportOnStop ==
    [][\A p \in Handlers :
          /\ (task[p].pc = "transition" /\ task'[p] # task[p]) =>
                ((task'[p].pc = "analyze") <=>
                    /\ task[p].cmd = "stop"
                    /\ state_manager.current_state # Stopped
                    /\ config.analyze_on_stop)
          /\ (task[p].pc # "analyze" /\ task'[p].pc = "analyze") =>
                task[p].pc = "transition"
          /\ task[p].pc = "analyze" =>
                /\ state_manager.current_state = Stopped
                /\ Unwrap(state_manager.current_session).id = task[p].id
                /\ IsSome(database.sessions[task[p].id].end_time)
                /\ task'[p] # task[p] =>
                      /\ task'[p].pc \in {"idle", "st_lock_tracker"}
                      /\ \A e \in DOMAIN trace' :
                            /\ trace'[e].op = "store_analysis" =>
                                  trace'[e].session_id = task[p].id
                            /\ trace'[e].op = "analyze_batch" =>
                                  \A k \in DOMAIN trace'[e].micro :
                                     database.activities[trace'[e].micro[k]].session_id
                                        = task[p].id]_vars

\* a stop has closed session 1, analysed its unit and answered Ok
C29_Witness ==
    /\ config.analyze_on_stop /\ config.llm_enabled
    /\ state_manager.current_state = Stopped
    /\ task["h1"].pc = "st_lock_tracker"
    /\ task[LlmTask].pc = "idle" /\ task[SyncTask].pc = "idle"
    /\ last_llm_analysis = Unwrap(database.sessions[1].end_time)
    /\ \E e \in DOMAIN trace :
          trace[e].op = "store_analysis" /\ trace[e].session_id = 1

\* ------------------------------------------------ the session statistics
\* Sessions are created and ended while the clock advances, and
\* get_session_stats is asked about them; `call` holds the last call, a
\* sample with the clock value it was taken at.
StatsMaxSessions == 2

Stats_create_session ==
    /\ Len(database.sessions) < StatsMaxSessions
    /\ database' = Database_create_session(database, now).db
    /\ call' = [fn |-> "create_session", res |-> Ok]
    /\ UNCHANGED <<state_manager, config, last_sync, now, last, task, locks,
                 jira, last_llm_analysis, issue_override, trace>>

\* end_session(id): the UPDATE is by id alone, whether the row has an end
\* or not
Stats_end_session ==
    /\ \E session_id \in DOMAIN database.sessions :
          database' = Database_end_session(database, session_id, now)
    /\ call' = [fn |-> "end_session", res |-> Ok]
    /\ UNCHANGED <<state_manager, config, last_sync, now, last, task, locks,
                 jira, last_llm_analysis, issue_override, trace>>

Stats_get_session_stats ==
    /\ \E session_id \in DOMAIN database.sessions :
          call' = [fn |-> "get_session_stats", session_id |-> session_id,
                   at |-> now,
                   res |-> Database_get_session_stats(database, session_id, now)]
    /\ UNCHANGED <<state_manager, database, config, last_sync, now, last, task,
                 locks, jira, last_llm_analysis, issue_override, trace>>

StatsNext ==
    \/ Stats_create_session
    \/ Stats_end_session
    \/ Stats_get_session_stats
    \/ Tick

StatsSpec == DBInit /\ [][StatsNext]_vars

JiraMaxTime == 25

Jira_get_assigned_issues ==
    /\ \E api \in SearchAnswers :
          LET g == JiraClient_get_assigned_issues(jira, now, api)
          IN /\ jira' = g.jira
             /\ call' = [fn |-> "get_assigned_issues", res |-> g.res,
                         issues |-> g.issues, remote |-> g.remote, at |-> now]
    /\ UNCHANGED <<state_manager, database, config, last_sync, now, last, task,
                 locks, last_llm_analysis, issue_override, trace>>

Jira_clear_cache ==
    /\ jira' = JiraClient_clear_cache(jira)
    /\ call' = [fn |-> "clear_cache"]
    /\ UNCHANGED <<state_manager, database, config, last_sync, now, last, task,
                 locks, last_llm_analysis, issue_override, trace>>

\* Utc::now advances
Jira_tick ==
    /\ now < JiraMaxTime
    /\ now' = now + 1
    /\ UNCHANGED <<state_manager, database, config, last_sync, last, task, locks,
                 jira, last_llm_analysis, issue_override, trace, call>>

JiraNext ==
    \/ Jira_get_assigned_issues
    \/ Jira_clear_cache
    \/ Jira_tick

JiraSpec == DBInit /\ [][JiraNext]_vars

\* C31: get_assigned_issues asks the server if and only if nothing is cached
\* or the cached entry is as old as the TTL or older; within the TTL it
\* returns the cached list and leaves the cache alone; a fetch that succeeds
\* replaces the entry, one that fails leaves it unchanged; the first call
\* after clear_cache fetches.
C31_ReadThroughTtlCache ==
    [][(call'.fn = "get_assigned_issues" /\ now' = now) =>
          LET cache == jira.assigned_issues_cache
              fresh == /\ IsSome(cache)
                       /\ (now - Unwrap(cache).cached_at) * ClockUnitSecs
                             < cache_duration_secs
          IN /\ call'.remote <=> ~fresh
             /\ fresh => /\ call'.res = Ok
                         /\ call'.issues = Unwrap(cache).issues
                         /\ jira' = jira
             /\ call'.res # Ok => jira' = jira
             /\ (call'.remote /\ call'.res = Ok) =>
                   jira'.assigned_issues_cache =
                      Some([issues |-> call'.issues, cached_at |-> now])
             /\ call.fn = "clear_cache" => call'.remote]_vars

\* a list cached at 0 is served from the cache one clock unit before the TTL
C31_Witness ==
    /\ call.fn = "get_assigned_issues"
    /\ ~call.remote
    /\ call.issues = <<KeyA, KeyB>>
    /\ IsSome(jira.assigned_issues_cache)
    /\ Unwrap(jira.assigned_issues_cache).cached_at = 0
    /\ (call.at + 1) * ClockUnitSecs = cache_duration_secs

\* C32: the analysis loop runs analyze_and_log_batch on a tick only while a
\* session is in progress: when the loop is about to analyse, the state is
\* Tracking or Paused, so no tick exports a session that has been stopped.
C32_TimerExportOnlyInSession ==
    task[LlmTask].pc = "analyze" =>
       state_manager.current_state \in {Tracking, Paused}

\* C33: an export run takes the AI path, that is calls the classifier, if
\* and only if the LLM and Jira are both enabled and the assigned-issue list
\* it got is not empty; the classifier is never called with an empty list;
\* and a run that does not take the AI path, unless it ended with the error
\* of the list fetch, asks, as the fallback path does, about every billable
\* unit of the session that is not yet exported.
C33_AiPathOrFallback ==
    [][ExportStep =>
          LET session_id == CurrentSessionId(state_manager)
              todo == SelectSeq(database.activities,
                                LAMBDA a : /\ a.session_id = session_id
                                           /\ a.duration_secs >= 600
                                           /\ ~a.logged_to_jira)
              asked == SelectSeq(trace', LAMBDA e : e.op = "is_assigned_to_me")
              ai == \E e \in DOMAIN trace' : trace'[e].op = "analyze_batch"
              failed == \E e \in DOMAIN trace' :
                           /\ trace'[e].op = "get_assigned_issues"
                           /\ trace'[e].res # Ok
              listed == \E e \in DOMAIN trace' :
                           /\ trace'[e].op = "get_assigned_issues"
                           /\ trace'[e].res = Ok
                           /\ Unwrap(jira'.assigned_issues_cache).issues # <<>>
          IN /\ ai <=> (config.llm_enabled /\ config.jira_enabled /\ listed)
             /\ \A e \in DOMAIN trace' :
                   trace'[e].op = "analyze_batch" =>
                      trace'[e].assigned_issues # <<>>
             /\ (~ai /\ ~failed) =>
                   [k \in DOMAIN asked |-> asked[k].id] =
                      [k \in DOMAIN todo |-> todo[k].id]]_vars

C35_StateAndStoreAgree ==
    LET open_breaks == {i \in DOMAIN database.breaks :
                           IsNone(database.breaks[i].end_time)}
        in_session == state_manager.current_state \in {Tracking, Paused}
    IN /\ (OpenSessions(database) # {}) <=> in_session
       /\ in_session =>
             OpenSessions(database) = {Unwrap(state_manager.current_session).id}
       /\ (open_breaks # {}) <=> state_manager.current_state = Paused
       /\ state_manager.current_state = Paused =>
             open_breaks = {Unwrap(state_manager.current_break).id}

\* C36: whenever the state machine holds a current break, that break belongs
\* to the current session.
C36_BreakBelongsToSession ==
    IsSome(state_manager.current_break) =>
       /\ IsSome(state_manager.current_session)
       /\ Unwrap(state_manager.current_break).session_id =
             Unwrap(state_manager.current_session).id

\* --------------------------------------------- syncs between commands
\* The control commands, the clock, and syncs whose fetch is answered:
\* screenpipe answers the query for the window from last_sync to now
\* (screenpipe.rs:56-57) with nothing or with one observation made in that
\* window.
SyncMaxActivities == 1

sync_window ==
    /\ TrackingState_is_tracking(state_manager.current_state)
    /\ IsSome(state_manager.current_session)
    /\ Len(database.activities) < SyncMaxActivities
    /\ \E activities \in {<<>>} \cup {<<Activity(ts, AppX, TitleA)>> :
                                         ts \in last_sync..now} :
         \E consolidated \in consolidate_activities(activities) :
            \E fail_at \in 0..Len(consolidated) :
               LET r == sync_fetched(database, last_sync,
                                     CurrentSessionId(state_manager),
                                     consolidated, fail_at, now)
               IN /\ database' = r.db
                  /\ last_sync' = r.last_sync
    /\ UNCHANGED <<state_manager, config, now, last, task, locks,
                 jira, last_llm_analysis, issue_override, trace, call>>

SyncNext ==
    \/ start_tracking_handler
    \/ pause_tracking_handler
    \/ resume_tracking_handler
    \/ stop_tracking_handler
    \/ Tick
    \/ sync_window

SyncSpec == Init /\ [][SyncNext]_vars

\* C37: every stored unit was observed while its session was Tracking: its
\* timestamp is not before the start of the session, not after its end, and
\* not inside a break of the session.
C37_OnlyTrackedActivityStored ==
    \A i \in DOMAIN database.activities :
       LET a == database.activities[i]
           session == database.sessions[a.session_id]
       IN /\ a.timestamp >= session.start_time
          /\ IsSome(session.end_time) => a.timestamp <= Unwrap(session.end_time)
          /\ \A b \in DOMAIN database.breaks :
                database.breaks[b].session_id = a.session_id =>
                   ~(/\ database.breaks[b].start_time < a.timestamp
                     /\ \/ IsNone(database.breaks[b].end_time)
                        \/ a.timestamp < Unwrap(database.breaks[b].end_time))

\* ------------------------------------------------ a /stop that reports failure
\* C38: whenever the stop command returns an error, the failure of the export
\* it triggers included, the state machine and the session rows of the store
\* are the same as before the command.
C38_FailedStopChangesNothing ==
    [][(stop_tracking_handler /\ last'.result # Ok)
          => /\ state_manager' = state_manager
             /\ database'.sessions = database.sessions]_vars

\* ------------------------------------- the ids a classifier result may list
\* Two sessions, and an LLM service whose issue match lists any id: that of
\* a unit of the session, of a unit of another session, or of no unit.
MarkMaxSessions == 2
ListedAnswers ==
    {[ok |-> TRUE,
      analysis |-> [confidence |-> 80,
                    issues |-> <<[key |-> KeyA, total_time_secs |-> 90,
                                  summary |-> TitleA, activities_included |-> ids,
                                  confidence |-> ConfidenceThreshold]>>,
                    unmatched |-> [activities |-> <<>>]]] :
        ids \in {<<id>> : id \in 1..(ExportMaxActivities + 1)} \cup {<<1, 2>>}}

\* one iteration of the LLM analysis loop with a current session, the
\* classifier answering with any of these results
llm_loop_listed ==
    /\ IsSome(state_manager.current_session)
    /\ Len(database.analysis_results) < MaxAnalyses
    /\ \E search \in SearchAnswers, answer \in ListedAnswers,
          outcome \in LogOutcomes(jira) :
          LET env == [api |-> <<search>>, llm |-> answer, log |-> <<outcome>>]
              a == analyze_and_log_batch(Self, CurrentSessionId(state_manager),
                                         now, env)
          IN /\ database' = a.self.database
             /\ jira' = a.self.jira
             /\ last_llm_analysis' = a.self.last_llm_analysis
             /\ trace' = a.self.trace
    /\ UNCHANGED <<state_manager, config, last_sync, now, last, task, locks,
                 issue_override, call>>

MarkNext ==
    \/ Len(database.sessions) < MarkMaxSessions /\ start_tracking_handler
    \/ stop_tracking_handler
    \/ sync_loop
    \/ llm_loop_listed

MarkSpec == ExportInit /\ [][MarkNext]_vars

\* C39: an export run for session S changes the exported flag only of units
\* that belong to S and were in the batch submitted in that run, whatever
\* ids the classifier result lists.
C39_MarksOnlySubmittedUnits ==
    [][ExportStep =>
          LET session_id == CurrentSessionId(state_manager)
              batch == Ids(Database_get_session_activities(database, session_id,
                                                           Some(Billable)))
                       \o Ids(Database_get_session_activities(database, session_id,
                                                              Some(Micro)))
          IN \A i \in ChangedUnits :
                /\ database.activities[i].session_id = session_id
                /\ \E k \in DOMAIN batch : batch[k] = database.activities[i].id]_vars

\* ------------------------------------------------- the three locks
\* The tasks that take locks, lock by lock: the handler of POST /start and
\* /stop ("h1"), the handler of POST /issue ("h2"), each followed by its
\* status_handler call, and the two loops.  The locks are the tracker's, the
\* state manager's inside it, and that of the issue override, which the
\* /issue handler writes and status_handler and the fallback export read.
LockTasks == Handlers \cup LoopTasks

\* a POST /issue arrives (daemon.rs:93)
IssueRequest(p) ==
    /\ p = "h2" /\ task[p].pc = "idle"
    /\ task' = [task EXCEPT ![p] = [Idle EXCEPT !.pc = "io_lock", !.cmd = "issue"]]
    /\ UNCHANGED <<state_manager, database, config, last_sync, now, last, locks,
                 jira, last_llm_analysis, issue_override, trace, call>>

\* issue_override_handler: state.issue_override.write().await (daemon.rs:169)
IssueLockOverride(p) ==
    /\ task[p].pc = "io_lock"
    /\ RwLock_can_write(locks.issue_override)
    /\ locks' = [locks EXCEPT !.issue_override.writer = Some(p)]
    /\ task' = Goto(p, "io_store")
    /\ UNCHANGED <<state_manager, database, config, last_sync, now, last,
                 jira, last_llm_analysis, issue_override, trace, call>>

\* IssueStore with the write guard kept across the status_handler call
IssueStore_KeepsGuard(p) ==
    /\ task[p].pc = "io_store"
    /\ \E issue_key \in {None, Some(<<" ", "b", "-", "2">>)} :
          LET trimmed == to_uppercase(trim(Unwrap(issue_key)))
          IN issue_override' = IF IsNone(issue_key) \/ trimmed = <<>>
                               THEN None ELSE Some(trimmed)
    /\ task' = [task EXCEPT ![p] = [Idle EXCEPT !.pc = "st_lock_tracker", !.cmd = "status"]]
    /\ UNCHANGED <<state_manager, database, config, last_sync, now, last, locks,
                 jira, last_llm_analysis, trace, call>>

\* issue_override_handler: `*guard = cleaned`, the guard drops, and
\* status_handler is called (daemon.rs:160-174)
IssueStore(p) ==
    /\ task[p].pc = "io_store"
    /\ \E issue_key \in {None, Some(<<" ", "b", "-", "2">>)} :
          LET trimmed == to_uppercase(trim(Unwrap(issue_key)))
          IN issue_override' = IF IsNone(issue_key) \/ trimmed = <<>>
                               THEN None ELSE Some(trimmed)
    /\ locks' = DropGuards(p)
    /\ task' = [task EXCEPT ![p] = [Idle EXCEPT !.pc = "st_lock_tracker", !.cmd = "status"]]
    /\ UNCHANGED <<state_manager, database, config, last_sync, now, last,
                 jira, last_llm_analysis, trace, call>>

\* status_handler: state_manager.read().await, read state and durations,
\* drop(state_manager), drop(tracker) (daemon.rs:131-137)
StatusReadState(p) ==
    /\ task[p].pc = "st_read"
    /\ RwLock_can_read(locks.state_manager)
    /\ locks' = DropGuards(p)
    /\ task' = Goto(p, "st_override")
    /\ UNCHANGED <<state_manager, database, config, last_sync, now, last,
                 jira, last_llm_analysis, issue_override, trace, call>>

\* status_handler: state.issue_override.read().await.clone(), and the answer
\* (daemon.rs:139-147)
StatusReadOverride(p) ==
    /\ task[p].pc = "st_override"
    /\ RwLock_can_read(locks.issue_override)
    /\ task' = [task EXCEPT ![p] = Idle]
    /\ UNCHANGED <<state_manager, database, config, last_sync, now, last, locks,
                 jira, last_llm_analysis, issue_override, trace, call>>

\* analyze_and_log_batch whose fallback path takes
\* self.issue_override.read().await before its loop (tracker.rs:363-368)
LockAnalyze(p) ==
    /\ task[p].pc = "analyze"
    /\ LET rows == Database_get_session_activities(database, task[p].id, None)
           fallback == /\ rows # <<>>
                       /\ ~(config.llm_enabled /\ config.jira_enabled)
                       /\ config.jira_enabled
       IN fallback => RwLock_can_read(locks.issue_override)
    /\ Analyze(p)

\* a step that waits for no lock
LockFreeStep(p) == LoopWake(p) \/ StoreCall(p) \/ Fetch(p) \/ IssueStore(p)
\* a step that starts with the acquisition of a lock
LockAcquire(p) ==
    \/ LiveLockTrackerWrite(p)
    \/ StatusLockTracker(p)
    \/ ReadState(p)
    \/ Transition(p)
    \/ StatusReadState(p)
    \/ IssueLockOverride(p)
    \/ StatusReadOverride(p)
    \/ LockAnalyze(p)

LockNext ==
    \/ Request("h1")
    \/ IssueRequest("h2")
    \/ \E p \in LockTasks :
          \/ LockAcquire(p)
          \/ LockFreeStep(p)
          \/ FetchAnswer(p)

LockInit == Constructed /\ config \in Configs /\ call = NoCall

\* tokio runs every task that can run, its RwLock serves waiters in the
\* order they arrived, and every collaborator call returns
LockSpec ==
    /\ LockInit /\ [][LockNext]_vars
    /\ \A p \in LockTasks : WF_vars(LockFreeStep(p)) /\ SF_vars(LockAcquire(p))
    /\ WF_vars(FetchAnswer(SyncTask))

\* the positions at which a task waits for each lock
WaitsFor ==
    [tracker |-> {"lock_tracker", "st_lock_tracker"},
     state_manager |-> {"read", "transition", "st_read"},
     issue_override |-> {"io_lock", "st_override", "analyze"}]

\* C40: no interleaving of the control handlers, the status and
\* issue-override handlers and the two loops deadlocks: every task that
\* starts waiting for the tracker lock, the state-manager lock or the
\* issue-override lock eventually acquires it, provided every collaborator
\* call returns.
C40_EveryWaiterAcquires ==
    \A p \in LockTasks : \A l \in DOMAIN WaitsFor :
       (task[p].pc \in WaitsFor[l]) ~> (task[p].pc \notin WaitsFor[l])

\* the /issue handler holds the write guard of the override while the
\* status_handler call of a POST /start waits to read it, the analysis loop,
\* holding the tracker lock, is about to read it on the fallback path, and
\* the sync loop waits for the tracker lock
C40_Witness ==
    /\ task["h2"].pc = "io_store"
    /\ locks.issue_override.writer = Some("h2")
    /\ task["h1"].pc = "st_override"
    /\ task[LlmTask].pc = "analyze"
    /\ locks.tracker.writer = Some(LlmTask)
    /\ Database_get_session_activities(database, task[LlmTask].id, None) # <<>>
    /\ task[SyncTask].pc = "lock_tracker"

====
